---- MODULE Spec2Model ----
(***************************************************************************)
(* Verification model of pointlander/robot: the stochastic decision        *)
(* network (Net), the matrix primitives it uses, the camera producers and  *)
(* their bounded Images queues, and the control loop's window selection.   *)
(*                                                                         *)
(* float32/float64 values are modelled in fixed point: the integer v       *)
(* stands for v / Scale, every arithmetic operation rounds to the nearest  *)
(* representable value, and NaN is a distinguished value that propagates   *)
(* through arithmetic and makes every comparison false, as in IEEE 754.    *)
(***************************************************************************)
EXTENDS Integers, Sequences, FiniteSets, TLC

\* ------------------------------------------------------------------------
\* Bounds of the model
\* ------------------------------------------------------------------------
\* fixed-point unit: the integer Scale stands for 1.0
Scale == 100
\* number of populations drawn per role in one Fire (256 in the source)
Samples == 3
\* largest input / output count passed to NewNet
MaxDim == 2
\* Fire calls per Net in one behaviour
MaxFires == 2
\* SetWindow calls in one behaviour
MaxSets == 1

\* ------------------------------------------------------------------------
\* Floating point
\* ------------------------------------------------------------------------
NaN == 0 - (Scale * Scale * Scale * Scale)

IsNaN(x) == x = NaN

Max(a, b) == IF a > b THEN a ELSE b

\* n / d rounded to the nearest integer (d > 0)
Round(n, d) ==
    IF n >= 0 THEN (2 * n + d) \div (2 * d)
    ELSE 0 - ((2 * (0 - n) + d) \div (2 * d))

FAdd(a, b) == IF IsNaN(a) \/ IsNaN(b) THEN NaN ELSE a + b
FSub(a, b) == IF IsNaN(a) \/ IsNaN(b) THEN NaN ELSE a - b
FMul(a, b) == IF IsNaN(a) \/ IsNaN(b) THEN NaN ELSE Round(a * b, Scale)
\* the only zero divisors the program produces divide zero: 0/0 = NaN
FDiv(a, b) ==
    IF IsNaN(a) \/ IsNaN(b) \/ b = 0 THEN NaN
    ELSE IF b > 0 THEN Round(a * Scale, b) ELSE Round((0 - a) * Scale, 0 - b)
\* comparisons with NaN are false
FGt(a, b) == ~IsNaN(a) /\ ~IsNaN(b) /\ a > b
FLt(a, b) == ~IsNaN(a) /\ ~IsNaN(b) /\ a < b

\* integer square root: the largest r in lo..hi with r * r <= n
RECURSIVE ISqrtIn(_, _, _)
ISqrtIn(n, lo, hi) ==
    IF lo >= hi THEN lo
    ELSE LET mid == (lo + hi + 1) \div 2
         IN  IF mid * mid <= n THEN ISqrtIn(n, mid, hi) ELSE ISqrtIn(n, lo, mid - 1)

\* math.Sqrt, rounded to the nearest unit
FSqrt(a) ==
    IF IsNaN(a) \/ a < 0 THEN NaN
    ELSE LET n == a * Scale
             r == ISqrtIn(n, 0, a + Scale)
         IN  IF n - r * r > (r + 1) * (r + 1) - n THEN r + 1 ELSE r

\* math.Exp followed by the conversion to float32: a positive value unless
\* the argument is below the float32 underflow threshold
RECURSIVE FExp(_)
FExp(x) ==
    IF IsNaN(x) THEN NaN
    ELSE IF x < 0 - 104 * Scale THEN 0
    ELSE IF x < 0 - (Scale \div 4)
         THEN LET h == FExp(0 - ((0 - x) \div 2))
              IN  Max(1, Round(h * h, Scale))
    ELSE IF x > Scale \div 4
         THEN LET h == FExp(x \div 2)
              IN  Max(1, Round(h * h, Scale))
    ELSE Max(1, Scale + x + Round(x * x, 2 * Scale))

\* math.Log of a positive value
RECURSIVE FLogPos(_)
FLogPos(p) ==
    IF 2 * p < Scale THEN FLogPos(2 * p) - Round(693 * Scale, 1000)
    ELSE IF p > 2 * Scale THEN FLogPos(p \div 2) + Round(693 * Scale, 1000)
    ELSE LET z == Round((p - Scale) * Scale, p + Scale)
             z3 == Round(z * z * z, Scale * Scale)
         IN  2 * z + Round(2 * z3, 3)

\* p * math.Log(p): 0 * -Inf and anything involving the log of a negative
\* value is NaN
PLogP(p) ==
    IF IsNaN(p) \/ p <= 0 THEN NaN ELSE FMul(p, FLogPos(p))

\* ------------------------------------------------------------------------
\* Sequences
\* ------------------------------------------------------------------------
RECURSIVE SumSeq(_)
SumSeq(s) == IF s = <<>> THEN 0 ELSE FAdd(Head(s), SumSeq(Tail(s)))

RECURSIVE Flatten(_)
Flatten(ss) == IF ss = <<>> THEN <<>> ELSE Head(ss) \o Flatten(Tail(ss))

\* ------------------------------------------------------------------------
\* Matrix primitive (src/matrix)
\* ------------------------------------------------------------------------
\* Matrix{Cols, Rows, Data}
Matrix(cols, rows, data) == [Cols |-> cols, Rows |-> rows, Data |-> data]

\* row i (0-based) of a matrix: m.Data[i*m.Cols : (i+1)*m.Cols]
Row(m, i) == SubSeq(m.Data, i * m.Cols + 1, (i + 1) * m.Cols)

\* dot(X, Y): ranges over X and indexes Y
dot(X, Y) == SumSeq([i \in 1..Len(X) |-> FMul(X[i], Y[i])])

\* T transposes a matrix
T(m) ==
    Matrix(m.Rows, m.Cols,
           [p \in 1..(m.Cols * m.Rows) |->
               LET i == (p - 1) \div m.Rows
                   j == (p - 1) % m.Rows
               IN  m.Data[j * m.Cols + i + 1]])

\* maximum that softmax finds: starts at 0 and is raised by every larger value
RECURSIVE softmaxMax(_, _)
softmaxMax(values, max) ==
    IF values = <<>> THEN max
    ELSE softmaxMax(Tail(values),
                    IF FGt(Head(values), max) THEN Head(values) ELSE max)

\* s := max * S, with max := float32(0.0) before the loop over the values
softmaxShift(values) == softmaxMax(values, 0)

\* softmax in place; S = 1 - 1e-300 converts to the float32 1.0, so the
\* shift max * S is max
softmax(values) ==
    LET s == softmaxShift(values)
        e == [j \in 1..Len(values) |-> FExp(FSub(values[j], s))]
        sum == SumSeq(e)
    IN  [j \in 1..Len(values) |-> FDiv(e[j], sum)]

\* the index errors SelfEntropy can raise: values has K.Rows entries and is
\* indexed by the rows of Q, dot ranges over its first operand
SelfEntropyPanics(Q, K, V) ==
    K.Rows > 0 /\ (Q.Rows > K.Rows \/ (Q.Rows > 0 /\ Q.Cols < K.Cols)
                   \/ (V.Cols > 0 /\ V.Rows < K.Rows))

\* the scores of row i of K against the rows of Q, written over the scores
\* the previous row left in values
SelfEntropyValues(Q, K, i, values) ==
    [j \in 1..K.Rows |->
        IF j <= Q.Rows THEN dot(Row(K, i), Row(Q, j - 1)) ELSE values[j]]

\* -sum(e * log(e))
SelfEntropyOf(entropies) ==
    FSub(0, SumSeq([j \in 1..Len(entropies) |-> PLogP(entropies[j])]))

RECURSIVE SelfEntropyRows(_, _, _, _, _)
SelfEntropyRows(Q, K, VT, i, values) ==
    IF i >= K.Rows THEN <<>>
    ELSE LET scores == SelfEntropyValues(Q, K, i, values)
             weights == softmax(scores)
             entropies == softmax([j \in 1..VT.Rows |-> dot(weights, Row(VT, j - 1))])
         IN  <<SelfEntropyOf(entropies)>>
                 \o SelfEntropyRows(Q, K, VT, i + 1, weights)

\* SelfEntropy computes the self entropy of Q, K, V: one value per row of K
SelfEntropy(Q, K, V) ==
    SelfEntropyRows(Q, K, T(V), 0, [j \in 1..K.Rows |-> 0])

\* the index errors SelfAttention can raise: dot ranges over its first
\* operand, a row of K against a row of Q and the Q.Rows weights against a
\* column of V
SelfAttentionPanics(Q, K, V) ==
    K.Rows > 0 /\ ((Q.Rows > 0 /\ Q.Cols < K.Cols) \/ (V.Cols > 0 /\ V.Rows < Q.Rows))

\* the row SelfAttention appends for row i of K: outputs has V.Cols entries
SelfAttentionRow(Q, K, VT, i) ==
    LET values == softmax([j \in 1..Q.Rows |-> dot(Row(K, i), Row(Q, j - 1))])
    IN  softmax([j \in 1..VT.Rows |-> dot(values, Row(VT, j - 1))])

\* SelfAttention computes the self attention of Q, K, V: o is declared with
\* Cols: V.Rows, Rows: K.Rows before V is transposed
SelfAttention(Q, K, V) ==
    Matrix(V.Rows, K.Rows,
           [p \in 1..(K.Rows * V.Cols) |->
               SelfAttentionRow(Q, K, T(V), (p - 1) \div V.Cols)[((p - 1) % V.Cols) + 1]])

\* EverettActivation: min(value, 0) and max(value, 0) for every value
EverettActivation(m) ==
    Matrix(2 * m.Cols, m.Rows,
           [p \in 1..(2 * Len(m.Data)) |->
               LET value == m.Data[(p + 1) \div 2]
               IN  IF p % 2 = 1 THEN (IF value > 0 THEN 0 ELSE value)
                   ELSE (IF value < 0 THEN 0 ELSE value)])

\* one term of the Taylor softmax: 1 + v + v*v/2
TaylorTerm(v) == FAdd(FAdd(Scale, v), FDiv(FMul(v, v), 2 * Scale))

\* TaylorSoftmax: sum is declared once and accumulates the terms of every
\* row; every term is divided by it
TaylorSoftmax(m) ==
    LET sum == SumSeq([p \in 1..Len(m.Data) |-> TaylorTerm(m.Data[p])])
    IN  Matrix(m.Cols, m.Rows,
               [p \in 1..Len(m.Data) |-> FDiv(TaylorTerm(m.Data[p]), sum)])

\* ------------------------------------------------------------------------
\* Random source (math/rand): a deterministic stream fixed by the seed
\* ------------------------------------------------------------------------
\* rand.NewSource(seed): the state of the stream after seeding
NewSource(seed) == seed % 64

\* the state of the stream after n more draws
RngAdvance(rng, n) == (rng + 37 * n) % 64

\* rng.NormFloat64(): a normal deviate, never NaN or infinite
NormFloat64(rng) ==
    LET table == <<0 - 3, 2, 0 - 1, 3, 1, 0 - 2, 1, 0 - 1>>
    IN  (table[(rng \div 8) + 1] * Scale) \div 2

\* ------------------------------------------------------------------------
\* Net
\* ------------------------------------------------------------------------
\* Random{Mean, StdDev}
Random(mean, stddev) == [Mean |-> mean, StdDev |-> stddev]

\* NewStatistics: Mean 0, StdDev 1 at every (output, input) coordinate
NewStatistics(inputs, outputs) ==
    [i \in 1..outputs |-> [j \in 1..inputs |-> Random(0, Scale)]]

\* a draw that subtracts the mean instead of adding it
WeightMinus(rng, r) ==
    LET v == FSub(FMul(NormFloat64(rng), r.StdDev), r.Mean)
    IN  IF FGt(v, 0) THEN Scale ELSE 0 - Scale

\* a draw whose deviate is not scaled by the standard deviation
WeightUnscaled(rng, r) ==
    LET v == FAdd(NormFloat64(rng), r.Mean)
    IN  IF FGt(v, 0) THEN Scale ELSE 0 - Scale

\* one drawn weight: the deviate scaled and shifted, thresholded to +1 / -1
Weight(rng, r) ==
    LET v == FAdd(FMul(NormFloat64(rng), r.StdDev), r.Mean)
    IN  IF FGt(v, 0) THEN Scale ELSE 0 - Scale

\* Set.Sample: outputs weight vectors of inputs weights each, drawn in order
\* from the random source
Sample(s, rng, inputs, outputs) ==
    [j \in 1..outputs |->
        [k \in 1..inputs |->
            Weight(RngAdvance(rng, (j - 1) * inputs + k), s[j][k])]]

\* element p (1-based) of a matrix buffer; a slice taken past the length of
\* Data but inside the capacity NewMatrix allocated reads zeros
At(m, p) == IF p <= Len(m.Data) THEN m.Data[p] ELSE 0

\* MulT without its column check
MulTPanicsUnchecked(m, n) ==
    /\ m.Cols > 0 /\ Len(n.Data) > 0 /\ Len(m.Data) > 0
    /\ \/ ((Len(n.Data) + m.Cols - 1) \div m.Cols) * m.Cols > Max(n.Cols * n.Rows, Len(n.Data))
       \/ ((Len(m.Data) + m.Cols - 1) \div m.Cols) * m.Cols > Max(m.Cols * m.Rows, Len(m.Data))

\* MulT panics on a column mismatch, or when a row slice leaves the capacity
MulTPanics(m, n) ==
    \/ m.Cols # n.Cols
    \/ m.Cols > 0 /\ Len(n.Data) > 0 /\ Len(m.Data) > 0
       /\ \/ ((Len(n.Data) + m.Cols - 1) \div m.Cols) * m.Cols > Max(n.Cols * n.Rows, Len(n.Data))
          \/ ((Len(m.Data) + m.Cols - 1) \div m.Cols) * m.Cols > Max(m.Cols * m.Rows, Len(m.Data))

\* MulT multiplies two matrices and computes the transpose: one entry per
\* (row of n, row of m), the rows taken in steps of m.Cols over the buffers
MulT(m, n) ==
    LET columns == m.Cols
        rowsN == IF columns = 0 THEN 0 ELSE (Len(n.Data) + columns - 1) \div columns
        rowsM == IF columns = 0 THEN 0 ELSE (Len(m.Data) + columns - 1) \div columns
    IN  Matrix(m.Rows, n.Rows,
               [p \in 1..(rowsN * rowsM) |->
                   LET i == (p - 1) \div rowsM
                       j == (p - 1) % rowsM
                   IN  SumSeq([c \in 1..columns |->
                           FMul(At(m, j * columns + c), At(n, i * columns + c))])])

\* Normalize panics when a row slice leaves the capacity of the buffer
NormalizePanics(m) ==
    /\ m.Cols > 0 /\ Len(m.Data) > 0
    /\ ((Len(m.Data) + m.Cols - 1) \div m.Cols) * m.Cols > Max(m.Cols * m.Rows, Len(m.Data))

\* the length Normalize divides a row by: 1 for a row whose squares sum to 0
NormalizeLength(row) ==
    LET sum == SumSeq([c \in 1..Len(row) |-> FMul(row[c], row[c])])
    IN  IF sum = 0 THEN Scale ELSE FSqrt(sum)

\* Normalize normalizes a matrix to the unit vector, row by row, the rows
\* taken in steps of m.Cols over the buffer
Normalize(m) ==
    LET width == m.Cols
        rows == IF width = 0 THEN 0 ELSE (Len(m.Data) + width - 1) \div width
    IN  Matrix(m.Cols, m.Rows,
               [p \in 1..(rows * width) |->
                   LET i == (p - 1) \div width
                       row == [c \in 1..width |-> At(m, i * width + c)]
                   IN  FDiv(At(m, p), NormalizeLength(row))])

\* Sample{Entropy, Neurons, Outputs}: one drawn population and its response
\* to the input
System(neurons, input) ==
    [Entropy |-> 0,
     Neurons |-> neurons,
     Outputs |-> [j \in 1..Len(neurons) |->
                     MulT(Matrix(Len(neurons[j]), 1, neurons[j]), input).Data[1]]]

\* the Samples populations one sampling loop of Fire draws for one role
Draw(s, rng, inputs, outputs, input) ==
    [i \in 1..Samples |->
        System(Sample(s, RngAdvance(rng, (i - 1) * inputs * outputs), inputs, outputs),
               input)]

\* the sign-entropy feature of input jj over the weight vectors of one
\* population (part_001, Net.Fire): a counts the negative weights, b the rest
SignEntropy(neurons, jj) ==
    LET a == Cardinality({j \in 1..Len(neurons) : neurons[j][jj] < 0})
        b == Len(neurons) - a
        pa == FDiv(a * Scale, (a + b) * Scale)
        pb == FDiv(b * Scale, (a + b) * Scale)
    IN  FSub(0, FAdd(PLogP(pa), PLogP(pb)))

\* the matrix Fire stacks for one role: per population its response vector
\* followed by its per-input sign-entropy features
RoleMatrix(systems, inputs, outputs) ==
    Matrix(outputs + inputs, Len(systems),
           Flatten([i \in 1..Len(systems) |->
               systems[i].Outputs
                   \o [jj \in 1..inputs |-> SignEntropy(systems[i].Neurons, jj)]]))

\* systems[i].Entropy = entropies[i]
WithEntropy(systems, entropies) ==
    [i \in 1..Len(systems) |-> [systems[i] EXCEPT !.Entropy = entropies[i]]]

\* sort.Slice(systems, less) with less(i, j) = systems[i].Entropy <
\* systems[j].Entropy: the insertion sort the library runs, an element moves
\* left while it is less than its left neighbour
RECURSIVE SortInsert(_, _)
SortInsert(sorted, x) ==
    IF sorted = <<>> THEN <<x>>
    ELSE LET last == sorted[Len(sorted)]
         IN  IF FLt(x.Entropy, last.Entropy)
             THEN SortInsert(SubSeq(sorted, 1, Len(sorted) - 1), x) \o <<last>>
             ELSE sorted \o <<x>>

RECURSIVE SortByEntropy(_)
SortByEntropy(systems) ==
    IF systems = <<>> THEN <<>>
    ELSE SortInsert(SortByEntropy(SubSeq(systems, 1, Len(systems) - 1)),
                    systems[Len(systems)])

\* systems[:window] panics unless 0 <= window <= len(systems)
ElitePanics(systems, window) == window < 0 \/ window > Len(systems)

\* statistics whose mean divides by the number of populations sampled
\* instead of the window
EliteStatisticsOfAll(systems, window, inputs, outputs) ==
    [j \in 1..outputs |->
        [k \in 1..inputs |->
            LET mean == FDiv(SumSeq([i \in 1..window |-> systems[i].Neurons[j][k]]),
                             Len(systems) * Scale)
                sq == SumSeq([i \in 1..window |->
                          LET diff == FSub(mean, systems[i].Neurons[j][k])
                          IN  FMul(diff, diff)])
            IN  Random(mean, FSqrt(FDiv(sq, window * Scale)))]]

\* mean and standard deviation, per (output, input) coordinate, of the
\* weights of systems[:window]
EliteStatistics(systems, window, inputs, outputs) ==
    [j \in 1..outputs |->
        [k \in 1..inputs |->
            LET mean == FDiv(SumSeq([i \in 1..window |-> systems[i].Neurons[j][k]]),
                             window * Scale)
                sq == SumSeq([i \in 1..window |->
                          LET diff == FSub(mean, systems[i].Neurons[j][k])
                          IN  FMul(diff, diff)])
            IN  Random(mean, FSqrt(FDiv(sq, window * Scale)))]]

\* Rate is the learning rate, .3
Rate == Round(3 * Scale, 10)

\* an update that assigns the elite statistics
BlendReplaced(old, elite) == elite

\* (1-Rate)*old + Rate*elite on the mean and on the standard deviation
Blend(old, elite) ==
    [i \in 1..Len(old) |->
        [j \in 1..Len(old[i]) |->
            Random(FAdd(FMul(Scale - Rate, old[i][j].Mean), FMul(Rate, elite[i][j].Mean)),
                   FAdd(FMul(Scale - Rate, old[i][j].StdDev), FMul(Rate, elite[i][j].StdDev)))]]

\* part_001: Net{window, Inputs, Outputs, Rng, Q, K, V}; NewNet stores its
\* arguments and gives every role fresh statistics
NewNet(seed, window, inputs, outputs) ==
    [window |-> window, Inputs |-> inputs, Outputs |-> outputs,
     Rng |-> NewSource(seed),
     Q |-> NewStatistics(inputs, outputs),
     K |-> NewStatistics(inputs, outputs),
     V |-> NewStatistics(inputs, outputs)]

\* part_004: Net{window, Inputs, Outputs, Rng, Distribution}
NewNet4(seed, window, inputs, outputs) ==
    [window |-> window, Inputs |-> inputs, Outputs |-> outputs,
     Rng |-> NewSource(seed),
     Distribution |-> NewStatistics(inputs, outputs)]

\* the ways a Net of a source can move its distributions toward the elite
\* statistics: Fire of part_001 blends with Rate, Fire of part_003 and of
\* part_004 assigns the elite statistics; NewNet takes no argument and Net
\* has no field that selects between them
UpdateModes(v) == IF v = "part_001" THEN {"blend"} ELSE {"replace"}

\* part_003: the package constants Inputs, Outputs and Window
GlobalInputs == MaxDim
GlobalOutputs == MaxDim
GlobalWindow == Samples - 1

\* part_003: Net{Inputs, Outputs, Rng, Distribution}; the distribution is
\* sized by the package constants, not by the arguments
NewNet3(seed, inputs, outputs) ==
    [Inputs |-> inputs, Outputs |-> outputs,
     Rng |-> NewSource(seed),
     Distribution |-> NewStatistics(GlobalInputs, GlobalOutputs)]

\* part_004 / part_003, Net.Fire: the populations of one call with their
\* entropies. sort.Slice is handed the entropies slice with a less function
\* that reads systems, so it permutes entropies and leaves systems in
\* sampling order
Systems4(distribution, rng, inputs, outputs, input) ==
    LET systems == Draw(distribution, rng, inputs, outputs, input)
        output == Matrix(outputs, Samples,
                         Flatten([i \in 1..Samples |-> systems[i].Outputs]))
    IN  WithEntropy(systems, SelfEntropy(output, output, output))

\* part_001, Net.Fire: the populations of the three roles, drawn role after
\* role from the Net's random source, every role given the entropies of the
\* one SelfEntropy(q, k, v) call and sorted by them
Systems1(n, input) ==
    LET per == Samples * n.Inputs * n.Outputs
        sq == Draw(n.Q, n.Rng, n.Inputs, n.Outputs, input)
        sk == Draw(n.K, RngAdvance(n.Rng, per), n.Inputs, n.Outputs, input)
        sv == Draw(n.V, RngAdvance(n.Rng, 2 * per), n.Inputs, n.Outputs, input)
        entropies == SelfEntropy(RoleMatrix(sq, n.Inputs, n.Outputs),
                                 RoleMatrix(sk, n.Inputs, n.Outputs),
                                 RoleMatrix(sv, n.Inputs, n.Outputs))
    IN  [Q |-> SortByEntropy(WithEntropy(sq, entropies)),
         K |-> SortByEntropy(WithEntropy(sk, entropies)),
         V |-> SortByEntropy(WithEntropy(sv, entropies))]

\* the orders of n elements: order[rank] is the sampling index of the
\* element placed at that rank
Orders(n) ==
    {order \in [1..n -> 1..n] : \A i \in 1..n : \A j \in 1..n : i # j => order[i] # order[j]}

\* the slice after its elements were moved into an order
Ranked(systems, order) == [i \in 1..Len(order) |-> systems[order[i]]]

\* what sort.Slice guarantees of its result: no element is less than the
\* element before it
IsSorted(systems) ==
    \A i \in 1..(Len(systems) - 1) : ~FLt(systems[i + 1].Entropy, systems[i].Entropy)

\* sort.Slice(systems, less): every order the call may leave the slice in.
\* For a slice of 12 elements or more (the source sorts Samples = 256) the
\* library runs a quicksort that swaps elements across the pivot, and it
\* documents that equal elements may be reversed from their original order
SortOutcomes(systems) ==
    {order \in Orders(Len(systems)) : IsSorted(Ranked(systems, order))}

\* ------------------------------------------------------------------------
\* State of the Net under study
\* ------------------------------------------------------------------------
VARIABLES
    version,    \* which source of Net is modelled: "part_001", "part_003", "part_004"
    args,       \* the arguments NewNet was called with
    net,        \* the Nets constructed, by name
    pc,         \* per Net: position of the task inside Fire
    local,      \* per Net: the local variables of the Fire in progress
    calls,      \* per Net: the Fire calls that returned, in order
    last,       \* per Net: the populations of the Fire that returned last
    sets        \* number of SetWindow calls made so far

netVars == <<version, args, net, pc, local, calls, last, sets>>

VARIABLES
    main,           \* which main loop runs: "part_002" or "part_004" ("none": not started)
    images,         \* per camera: the buffer of its Images channel, oldest frame first
    camPc,          \* per camera: position of Start: "read", "send", "closed", "panic"
    skip,           \* per camera: Start's skip counter
    count,          \* per camera: Start's count of frames read
    held,           \* per camera: the frame Start is about to offer
    supply,         \* per camera: frames the device delivers in all
    drops,          \* per camera: number of "drop" lines printed
    netWindow,      \* per Net of the system: the window it holds
    ctl,            \* the control goroutine: position and frame in hand
    output,         \* the input vector of the top-level Net, one segment per camera
    mode,           \* "Manual" or "Auto"
    joystickLeft,   \* "None", "Up" or "Down"
    joystickRight,
    lines,          \* the motor lines in1..in4
    call,           \* a library function under study: its operands and outcome
    proc,           \* a frame pipeline under study: its grid and its latest frame
    ctlTask,        \* the control goroutine inside its decoder and update()
    evtTask,        \* the event loop inside an event handler and update()
    quiet,          \* the Auto-to-Manual handler has finished and no axis event followed
    pwmUpDownServo,     \* pulse width of the up/down servo
    pwmLeftRightServo,  \* pulse width of the left/right servo
    servo,          \* the servo lines and the timers that will clear them
    dispatch,       \* the dispatch goroutine: at its select, or sending to a processor
    Input,          \* per frame processor: the buffer of its Input channel
    processing      \* per frame processor: the input Process is working on (0: none)

camVars == <<images, camPc, skip, count, held, supply, drops>>
ctlVars == <<main, netWindow, ctl, output, mode, joystickLeft, joystickRight, lines>>
funVars == <<call>>
procVars == <<proc>>
motorVars == <<ctlTask, evtTask, quiet>>
hatVars == <<pwmUpDownServo, pwmLeftRightServo, servo>>
dispVars == <<dispatch, Input, processing>>
extVars == <<motorVars, hatVars, dispVars>>
sysVars == <<camVars, ctlVars, funVars, procVars, extVars>>

\* the three cameras: center is a StreamCamera, left and right are V4LCameras
Cameras == {"center", "left", "right"}

\* Images: make(chan Frame, 8)
QueueCap == 8

\* Nets is the number of camera nets
Nets == 16

\* update(): the motor lines follow the two joystick states
update(left, right) ==
    [in1 |-> IF left = "Up" THEN 1 ELSE 0,
     in2 |-> IF left = "Down" THEN 1 ELSE 0,
     in3 |-> IF right = "Up" THEN 1 ELSE 0,
     in4 |-> IF right = "Down" THEN 1 ELSE 0]

\* no library function is under study
NoCall == [fn |-> "none"]

\* no frame pipeline is under study
NoProc == [kind |-> "none"]

\* a task that is not inside any handler
TaskIdle == [pc |-> "idle"]

\* the servo lines low, no timer pending, no hat event handled
ServoIdle ==
    [UpDown |-> 0, LeftRight |-> 0, timers |-> <<>>, hats |-> 0, hat |-> 0, moved |-> FALSE]

\* the event loop has handled no event and the control goroutine decodes
\* nothing
ExtIdle ==
    /\ ctlTask = TaskIdle
    /\ evtTask = TaskIdle
    /\ quiet = FALSE
    /\ pwmUpDownServo = 1500
    /\ pwmLeftRightServo = 1500
    /\ servo = ServoIdle
    /\ dispatch = [pc |-> "select"]
    /\ Input = [c \in Cameras |-> <<>>]
    /\ processing = [c \in Cameras |-> 0]

\* before main has started any task
SysIdle ==
    /\ call = NoCall
    /\ proc = NoProc
    /\ ExtIdle
    /\ main = "none"
    /\ images = [c \in Cameras |-> <<>>]
    /\ camPc = [c \in Cameras |-> "read"]
    /\ skip = [c \in Cameras |-> 0]
    /\ count = [c \in Cameras |-> 0]
    /\ held = [c \in Cameras |-> 0]
    /\ supply = [c \in Cameras |-> 0]
    /\ drops = [c \in Cameras |-> 0]
    /\ netWindow = <<>>
    /\ ctl = [pc |-> "select"]
    /\ output = <<>>
    /\ mode = "Manual"
    /\ joystickLeft = "None"
    /\ joystickRight = "None"
    /\ lines = update("None", "None")

Versions == {"part_001", "part_003", "part_004"}
Seeds == {1, 22}
Idle == [at |-> "idle"]

\* the input vectors handed to Fire: one row of the given number of columns
InputVectors(cols) ==
    IF cols = 1 THEN {Matrix(1, 1, <<Scale>>), Matrix(1, 1, <<0 - Scale>>)}
    ELSE {Matrix(cols, 1, [c \in 1..cols |-> IF c = 1 THEN (6 * Scale) \div 10
                                                ELSE (8 * Scale) \div 10]),
          Matrix(cols, 1, [c \in 1..cols |-> IF c = 1 THEN 0 - ((8 * Scale) \div 10)
                                                ELSE (6 * Scale) \div 10])}

Construct(v, seed, window, inputs, outputs) ==
    CASE v = "part_001" -> NewNet(seed, window, inputs, outputs)
      [] v = "part_004" -> NewNet4(seed, window, inputs, outputs)
      [] v = "part_003" -> NewNet3(seed, inputs, outputs)

\* the Nets ids, all constructed with the same arguments
InitNetWith(versions, ids, windows) ==
    /\ version \in versions
    /\ \E seed \in Seeds,
          window \in (IF version = "part_003" THEN {GlobalWindow} ELSE windows),
          inputs \in 1..MaxDim, outputs \in 1..MaxDim :
          /\ args = [seed |-> seed, window |-> window, inputs |-> inputs, outputs |-> outputs]
          /\ net = [id \in ids |-> Construct(version, seed, window, inputs, outputs)]
    /\ pc = [id \in ids |-> "idle"]
    /\ local = [id \in ids |-> Idle]
    /\ calls = [id \in ids |-> <<>>]
    /\ last = [id \in ids |-> <<>>]
    /\ sets = 0
    /\ SysIdle

\* one Net of any of the three sources, with a window NewNet's callers pass
InitNet == InitNetWith(Versions, {"a"}, 1..Samples)

\* one Net that has a SetWindow method
InitWin == InitNetWith({"part_001", "part_004"}, {"a"}, 1..Samples)

\* two Nets of part_001 built with the same arguments
InitTwin == InitNetWith({"part_001"}, {"a", "b"}, 1..Samples)

\* Net.SetWindow: atomic.StoreInt64(&n.window, window), from any task
SetWindow(id, window) ==
    /\ version # "part_003"
    /\ sets < MaxSets
    /\ pc[id] # "panic"
    /\ net' = [net EXCEPT ![id].window = window]
    /\ sets' = sets + 1
    /\ UNCHANGED <<version, args, pc, local, calls, last>>
    /\ UNCHANGED sysVars

\* a Fire that draws from one random source shared by every Net
FireSampleShared(id, input) ==
    /\ version = "part_001"
    /\ pc[id] = "idle"
    /\ Len(calls[id]) < MaxFires
    /\ IF MulTPanics(Matrix(net[id].Inputs, 1, <<>>), input)
       THEN /\ pc' = [pc EXCEPT ![id] = "panic"]
            /\ UNCHANGED <<net, local>>
       ELSE /\ pc' = [pc EXCEPT ![id] = "Q"]
            /\ local' = [local EXCEPT ![id] =
                  [at |-> "fire", input |-> input, start |-> net[id].window,
                   used |-> <<>>,
                   systems |-> Systems1([net[id] EXCEPT !.Rng = net["a"].Rng], input)]]
            /\ net' = [net EXCEPT !["a"].Rng =
                  RngAdvance(@, 3 * Samples * net[id].Inputs * net[id].Outputs)]
    /\ UNCHANGED <<version, args, calls, last, sets>>
    /\ UNCHANGED sysVars

\* part_001, Net.Fire up to the three sorts: the populations are drawn (the
\* random source advances), scored and ranked
FireSample(id, input) ==
    /\ version = "part_001"
    /\ pc[id] = "idle"
    /\ Len(calls[id]) < MaxFires
    /\ IF MulTPanics(Matrix(net[id].Inputs, 1, <<>>), input)
       THEN /\ pc' = [pc EXCEPT ![id] = "panic"]
            /\ UNCHANGED <<net, local>>
       ELSE /\ pc' = [pc EXCEPT ![id] = "Q"]
            /\ local' = [local EXCEPT ![id] =
                  [at |-> "fire", input |-> input, start |-> net[id].window,
                   used |-> <<>>, systems |-> Systems1(net[id], input)]]
            /\ net' = [net EXCEPT ![id].Rng =
                  RngAdvance(@, 3 * Samples * net[id].Inputs * net[id].Outputs)]
    /\ UNCHANGED <<version, args, calls, last, sets>>
    /\ UNCHANGED sysVars

\* part_001, Net.CalculateStatistics and the blend of one role: the window
\* is loaded when CalculateStatistics is called for that role
FireRole(id, role) ==
    /\ version = "part_001"
    /\ pc[id] = role
    /\ LET n == net[id]
           window == n.window
           systems == local[id].systems[role]
           next == IF role = "Q" THEN "K" ELSE IF role = "K" THEN "V" ELSE "idle"
       IN  IF ElitePanics(systems, window)
           THEN /\ pc' = [pc EXCEPT ![id] = "panic"]
                /\ UNCHANGED <<net, local, calls, last>>
           ELSE LET elite == EliteStatistics(systems, window, n.Inputs, n.Outputs)
                    used == Append(local[id].used, window)
                IN  /\ net' = [net EXCEPT ![id][role] = Blend(@, elite)]
                    /\ pc' = [pc EXCEPT ![id] = next]
                    /\ IF role = "V"
                       THEN /\ calls' = [calls EXCEPT ![id] = Append(@,
                                  [input |-> local[id].input,
                                   start |-> local[id].start,
                                   used |-> used,
                                   result |-> systems[1].Outputs,
                                   after |-> net'[id]])]
                            /\ last' = [last EXCEPT ![id] = local[id].systems]
                            /\ local' = [local EXCEPT ![id] = Idle]
                       ELSE /\ local' = [local EXCEPT ![id].used = used]
                            /\ UNCHANGED <<calls, last>>
    /\ UNCHANGED <<version, args, sets>>
    /\ UNCHANGED sysVars

\* part_004, Net.Fire, first statement and the sampling loop: the window is
\* loaded once, with the random source and the distribution
FireLoad4(id, input) ==
    /\ version = "part_004"
    /\ pc[id] = "idle"
    /\ Len(calls[id]) < MaxFires
    /\ LET n == net[id]
       IN  IF MulTPanics(Matrix(n.Inputs, 1, <<>>), input)
           THEN /\ pc' = [pc EXCEPT ![id] = "panic"]
                /\ UNCHANGED <<net, local>>
           ELSE /\ pc' = [pc EXCEPT ![id] = "D"]
                /\ local' = [local EXCEPT ![id] =
                      [at |-> "fire", input |-> input, start |-> n.window,
                       window |-> n.window,
                       systems |-> [D |-> Systems4(n.Distribution, n.Rng,
                                                    n.Inputs, n.Outputs, input)]]]
                /\ net' = [net EXCEPT ![id].Rng =
                      RngAdvance(@, Samples * n.Inputs * n.Outputs)]
    /\ UNCHANGED <<version, args, calls, last, sets>>
    /\ UNCHANGED sysVars

\* part_004, Net.Fire from the statistics on: the elite is systems[:window]
\* for the window loaded at the start, the distribution is replaced
FireRun4(id) ==
    /\ version = "part_004"
    /\ pc[id] = "D"
    /\ LET n == net[id]
           window == local[id].window
           systems == local[id].systems.D
       IN  IF ElitePanics(systems, window)
           THEN /\ pc' = [pc EXCEPT ![id] = "panic"]
                /\ UNCHANGED <<net, local, calls, last>>
           ELSE /\ net' = [net EXCEPT ![id].Distribution =
                      EliteStatistics(systems, window, n.Inputs, n.Outputs)]
                /\ pc' = [pc EXCEPT ![id] = "idle"]
                /\ calls' = [calls EXCEPT ![id] = Append(@,
                      [input |-> local[id].input,
                       start |-> local[id].start,
                       used |-> <<window>>,
                       result |-> systems[1].Outputs,
                       after |-> net'[id]])]
                /\ last' = [last EXCEPT ![id] = local[id].systems]
                /\ local' = [local EXCEPT ![id] = Idle]
    /\ UNCHANGED <<version, args, sets>>
    /\ UNCHANGED sysVars

\* part_003, Net.Fire: sizes and window are the package constants
Fire3(id, input) ==
    /\ version = "part_003"
    /\ pc[id] = "idle"
    /\ Len(calls[id]) < MaxFires
    /\ LET n == net[id]
       IN  IF MulTPanics(Matrix(GlobalInputs, 1, <<>>), input)
           THEN /\ pc' = [pc EXCEPT ![id] = "panic"]
                /\ UNCHANGED <<net, calls, last>>
           ELSE LET systems == Systems4(n.Distribution, n.Rng,
                                        GlobalInputs, GlobalOutputs, input)
                IN  /\ net' = [net EXCEPT
                          ![id].Rng = RngAdvance(@, Samples * GlobalInputs * GlobalOutputs),
                          ![id].Distribution = EliteStatistics(systems, GlobalWindow,
                                                   GlobalInputs, GlobalOutputs)]
                    /\ calls' = [calls EXCEPT ![id] = Append(@,
                          [input |-> input,
                           start |-> GlobalWindow,
                           used |-> <<GlobalWindow>>,
                           result |-> systems[1].Outputs,
                           after |-> net'[id]])]
                    /\ last' = [last EXCEPT ![id] = [D |-> systems]]
                    /\ UNCHANGED pc
    /\ UNCHANGED <<version, args, local, sets>>
    /\ UNCHANGED sysVars

\* NewNet called with the arguments drawn in the initial state
NewNetCall ==
    /\ DOMAIN net = {}
    /\ net' = [id \in {"a"} |->
                  Construct(version, args.seed, args.window, args.inputs, args.outputs)]
    /\ pc' = [id \in {"a"} |-> "idle"]
    /\ local' = [id \in {"a"} |-> Idle]
    /\ calls' = [id \in {"a"} |-> <<>>]
    /\ last' = [id \in {"a"} |-> <<>>]
    /\ UNCHANGED <<version, args, sets>>
    /\ UNCHANGED sysVars

\* before construction: any window may be passed to NewNet
InitNew ==
    /\ version \in {"part_001", "part_004"}
    /\ args \in [seed : Seeds, window : (0 - 1)..(Samples + 1),
                 inputs : 1..MaxDim, outputs : 1..MaxDim]
    /\ net = <<>>
    /\ pc = <<>>
    /\ local = <<>>
    /\ calls = <<>>
    /\ last = <<>>
    /\ sets = 0
    /\ SysIdle

\* the callers hand Fire a vector of the input count the Net was built with
NextNet ==
    \/ \E id \in DOMAIN net : \E input \in InputVectors(net[id].Inputs) : FireSample(id, input)
    \/ \E id \in DOMAIN net, role \in {"Q", "K", "V"} : FireRole(id, role)
    \/ \E id \in DOMAIN net : \E input \in InputVectors(net[id].Inputs) : FireLoad4(id, input)
    \/ \E id \in DOMAIN net : FireRun4(id)
    \/ \E id \in DOMAIN net : \E input \in InputVectors(net[id].Inputs) : Fire3(id, input)

\* the same, with another task calling SetWindow at any moment
NextWin ==
    \/ \E id \in DOMAIN net, w \in 1..Samples : SetWindow(id, w)
    \/ \E id \in DOMAIN net : \E input \in InputVectors(net[id].Inputs) : FireSample(id, input)
    \/ \E id \in DOMAIN net, role \in {"Q", "K", "V"} : FireRole(id, role)
    \/ \E id \in DOMAIN net : \E input \in InputVectors(net[id].Inputs) : FireLoad4(id, input)
    \/ \E id \in DOMAIN net : FireRun4(id)

\* every call made on Net "a" is replayed on Net "b" with the same input
NextTwin ==
    \/ /\ Len(calls["a"]) = Len(calls["b"])
       /\ \E input \in InputVectors(net["a"].Inputs) : FireSample("a", input)
    \/ /\ Len(calls["b"]) < Len(calls["a"])
       /\ FireSample("b", calls["a"][Len(calls["b"]) + 1].input)
    \/ \E id \in DOMAIN net, role \in {"Q", "K", "V"} : FireRole(id, role)

\* construction with any window, then use
NextNew ==
    \/ NewNetCall
    \/ \E id \in DOMAIN net, w \in 1..Samples : SetWindow(id, w)
    \/ \E id \in DOMAIN net : \E input \in InputVectors(net[id].Inputs) : FireSample(id, input)
    \/ \E id \in DOMAIN net, role \in {"Q", "K", "V"} : FireRole(id, role)
    \/ \E id \in DOMAIN net : \E input \in InputVectors(net[id].Inputs) : FireLoad4(id, input)
    \/ \E id \in DOMAIN net : FireRun4(id)

vars == <<netVars, sysVars>>

SpecNet == InitNet /\ [][NextNet]_vars

SpecWin == InitWin /\ [][NextWin]_vars

SpecTwin == InitTwin /\ [][NextTwin]_vars

SpecNew == InitNew /\ [][NextNew]_vars

\* ------------------------------------------------------------------------
\* Cameras: StreamCamera.Start and V4LCamera.Start
\* ------------------------------------------------------------------------
\* frames delivered by the one camera that streams
MaxFrames == 12
\* frames delivered by each camera while the control loop runs
CtlFrames == 1

\* a StreamCamera processes 10 frames, then skips one
SkipStream == 10

\* a V4LCamera processes 20 frames, then skips one
SkipV4L == 20

SkipLimit(c) == IF c = "center" THEN SkipStream ELSE SkipV4L

\* what one read of the device yields: no frame (a nil video frame, a
\* timeout, a read error), an empty frame (V4L only), a frame, or (from the
\* decoder of the StreamCamera) a frame whose width or height is below 4
Reads(c) ==
    IF c = "center" THEN {"none", "frame", "corrupt"} ELSE {"none", "empty", "frame"}

\* the program has started and no task has panicked
Running ==
    /\ main # "none"
    /\ ctl.pc # "panic"
    /\ \A c \in Cameras : camPc[c] # "panic"

\* Start, one pass of the loop from the read up to the select: without a
\* frame the loop continues; a frame is counted, every (SkipLimit + 1)-th
\* frame is skipped, an empty V4L frame is not processed, and a processed
\* frame is held with its response. The sampling coordinates are drawn from
\* the first processed frame with rng.Intn(width / 4) and rng.Intn(height / 4),
\* which panics for an argument of 0; once they exist, a frame that is too
\* small is sampled at them all the same (GrayAt yields 0 outside the image)
\* and is held like any other, here under a negative number
ReadFrame(c, got) ==
    /\ Running
    /\ camPc[c] = "read"
    /\ count[c] < supply[c]
    /\ IF got = "none"
       THEN UNCHANGED <<count, skip, held, camPc>>
       ELSE /\ count' = [count EXCEPT ![c] = @ + 1]
            /\ IF skip[c] < SkipLimit(c)
               THEN /\ skip' = [skip EXCEPT ![c] = @ + 1]
                    /\ CASE got = "frame" ->
                                /\ held' = [held EXCEPT ![c] = count[c] + 1]
                                /\ camPc' = [camPc EXCEPT ![c] = "send"]
                         [] got = "corrupt" /\ held[c] = 0 ->
                                /\ camPc' = [camPc EXCEPT ![c] = "panic"]
                                /\ UNCHANGED held
                         [] got = "corrupt" /\ held[c] # 0 ->
                                /\ held' = [held EXCEPT ![c] = 0 - (count[c] + 1)]
                                /\ camPc' = [camPc EXCEPT ![c] = "send"]
                         [] OTHER -> UNCHANGED <<held, camPc>>
               ELSE /\ skip' = [skip EXCEPT ![c] = 0]
                    /\ UNCHANGED <<held, camPc>>
    /\ UNCHANGED <<images, supply, drops, ctlVars, netVars, funVars, procVars, extVars>>

\* a send that waits for room in the buffer
OfferBlocking(c) ==
    /\ Running
    /\ camPc[c] = "send"
    /\ Len(images[c]) < QueueCap
    /\ images' = [images EXCEPT ![c] = Append(@, held[c])]
    /\ camPc' = [camPc EXCEPT ![c] = "read"]
    /\ UNCHANGED <<skip, count, held, supply, drops, ctlVars, netVars, funVars, procVars, extVars>>

\* Start, the select: the frame is appended if the buffer has room, else
\* "drop" is printed; either way the loop goes on to its next read
Offer(c) ==
    /\ Running
    /\ camPc[c] = "send"
    /\ IF Len(images[c]) < QueueCap
       THEN /\ images' = [images EXCEPT ![c] = Append(@, held[c])]
            /\ UNCHANGED drops
       ELSE /\ drops' = [drops EXCEPT ![c] = @ + 1]
            /\ UNCHANGED images
    /\ camPc' = [camPc EXCEPT ![c] = "read"]
    /\ UNCHANGED <<skip, count, held, supply, ctlVars, netVars, funVars, procVars, extVars>>

\* StreamCamera.Start: ReadPacket reports the end of the stream, the loop is
\* left and the deferred close(sc.Images) runs
StreamEnd ==
    /\ Running
    /\ camPc["center"] = "read"
    /\ camPc' = [camPc EXCEPT !["center"] = "closed"]
    /\ UNCHANGED <<images, skip, count, held, supply, drops, ctlVars, netVars, funVars, procVars, extVars>>

\* ------------------------------------------------------------------------
\* Control goroutine and event loop of main
\* ------------------------------------------------------------------------
Mains == {"part_002", "part_004"}

\* the Nets of the system: the top-level Net out, part_004's auxiliary Net
\* win, and per camera the summary Net (index 0) and the sub-nets 1..Nets
NetNames(m) ==
    {<<"out", 0>>} \cup (IF m = "part_004" THEN {<<"win", 0>>} ELSE {})
                   \cup (Cameras \X (0..Nets))

\* the package constant Window every Net is constructed with
Window(m) == IF m = "part_002" THEN 128 ELSE 32

\* Samples is the number of samples a Fire draws
SampleCount == 256

\* part_002, setWindow: out, and every camera's Nets and Net
setWindow(w) ==
    [n \in DOMAIN netWindow |->
        IF n = <<"out", 0>> \/ n[1] \in Cameras THEN w ELSE netWindow[n]]

\* a window switch that stores the window on top of the sample count
SelectWindowScaled(w) ==
    [n \in DOMAIN netWindow |->
        IF n \in {<<"center", 0>>, <<"left", 0>>, <<"right", 0>>, <<"out", 0>>}
        THEN SampleCount + w ELSE netWindow[n]]

\* part_004, one case of the window switch: the three summary Nets and out
SelectWindow(w) ==
    [n \in DOMAIN netWindow |->
        IF n \in {<<"center", 0>>, <<"left", 0>>, <<"right", 0>>, <<"out", 0>>}
        THEN w ELSE netWindow[n]]

\* the vectors Fire returns for a Net of TopOutputs = 3 outputs, one entry
\* per output: every sign pattern, and the zero vector
Responses == [1..3 -> {0 - Scale, Scale}] \cup {<<0, 0, 0>>}

\* the responses the arg-max decoders of part_004 tell apart: no entry above
\* 0, or one entry above the others
Peaks == {<<0, 0, 0>>} \cup {[i \in 1..3 |-> IF i = k THEN Scale ELSE 0 - Scale] : k \in 1..3}

\* part_002: c |= 1 << i for every entry v > 0
RECURSIVE SignCode(_, _)
SignCode(data, i) ==
    IF i > Len(data) THEN 0
    ELSE (IF FGt(data[i], 0) THEN 2 ^ (i - 1) ELSE 0) + SignCode(data, i + 1)

\* part_004: the index of the largest entry above 0, 0 if there is none
RECURSIVE ArgMax(_, _, _, _)
ArgMax(data, i, max, index) ==
    IF i > Len(data) THEN index
    ELSE IF FGt(data[i], max) THEN ArgMax(data, i + 1, data[i], i - 1)
    ELSE ArgMax(data, i + 1, max, index)

\* an entry of output no frame has written: NewMatrix zeroes the buffer
Zero == <<"none", 0>>

\* the segment of output that belongs to one camera, in units of the Outputs
\* entries a camera's summary Net returns: output.Data[:3*Outputs] and so on
\* in part_002, output.Data[:Outputs] and so on in part_004
Segment(m) == IF m = "part_002" THEN 3 ELSE 1

\* frame.Output.Data: the response of camera c's summary Net to frame f, one
\* unit long; the zero Frame of a closed channel has no data
FrameOutput(c, f) == IF f = 0 THEN <<>> ELSE <<<<c, f>>>>

\* copy(dst, src): min(len(dst), len(src)) entries are copied
copy(dst, src) == [i \in 1..Len(dst) |-> IF i <= Len(src) THEN src[i] ELSE dst[i]]

\* a copy to the start of output.Data, whichever camera sent the frame
StoreFrameFlat(out, c, data) == [out EXCEPT !["center"] = copy(@, data)]

\* copy(output.Data[lo:hi], frame.Output.Data), lo:hi being camera c's segment
StoreFrame(out, c, data) == [out EXCEPT ![c] = copy(@, data)]

\* the control goroutine at its select; from is the camera whose case the
\* select ran last, frame the frame in hand until out.Fire has returned
CtlIdle == [pc |-> "select", from |-> "none", frame |-> 0]

\* a select that takes a frame only when all three cameras have one ready
CtlReceiveBarrier(c) ==
    /\ Running
    /\ ctl.pc = "select"
    /\ \A d \in Cameras : Len(images[d]) > 0
    /\ ctl' = [pc |-> "fire", from |-> c, frame |-> Head(images[c])]
    /\ output' = StoreFrame(output, c, FrameOutput(c, Head(images[c])))
    /\ images' = [images EXCEPT ![c] = Tail(@)]
    /\ UNCHANGED <<camPc, skip, count, held, supply, drops>>
    /\ UNCHANGED <<main, netWindow, mode, joystickLeft, joystickRight, lines, netVars, funVars, procVars, extVars>>

\* the select of the control loop: a frame is received from one camera (a
\* closed channel yields the zero Frame, whose nil image part_002 calls
\* Bounds on)
CtlReceive(c) ==
    /\ Running
    /\ ctl.pc = "select"
    /\ IF Len(images[c]) > 0
       THEN /\ ctl' = [pc |-> "fire", from |-> c, frame |-> Head(images[c])]
            /\ output' = StoreFrame(output, c, FrameOutput(c, Head(images[c])))
            /\ images' = [images EXCEPT ![c] = Tail(@)]
       ELSE /\ camPc[c] = "closed"
            /\ ctl' = IF main = "part_002" THEN [CtlIdle EXCEPT !.pc = "panic"]
                      ELSE [pc |-> "fire", from |-> c, frame |-> 0]
            /\ output' = IF main = "part_002" THEN output
                          ELSE StoreFrame(output, c, FrameOutput(c, 0))
            /\ UNCHANGED images
    /\ UNCHANGED <<camPc, skip, count, held, supply, drops>>
    /\ UNCHANGED <<main, netWindow, mode, joystickLeft, joystickRight, lines, netVars, funVars, procVars, extVars>>

\* part_002 decodes a.Data[6:], the entries after the first six
DecodeFrom == 6

\* the entries the sign decoder of part_002 reads: a.Data[6:]
Decoded(data) == SubSeq(data, DecodeFrom + 1, Len(data))

\* a.Data[6:] panics when the vector has fewer than six entries
DecodePanics(data) == DecodeFrom > Len(data)

\* the joystick states and windows the switch of part_002 sets for a code
SwitchLeft(c, left) ==
    CASE c \in {0, 2} -> "Up"
      [] c \in {1, 4} -> "Down"
      [] c = 3 -> "None"
      [] OTHER -> left

SwitchRight(c, right) ==
    CASE c \in {0, 1} -> "Up"
      [] c \in {2, 4} -> "Down"
      [] c = 3 -> "None"
      [] OTHER -> right

SwitchWindow(c) ==
    CASE c = 5 -> setWindow(128)
      [] c = 6 -> setWindow(64)
      [] c = 7 -> setWindow(32)
      [] OTHER -> netWindow

\* part_002, the rest of one iteration: a := out.Fire(output), and in auto
\* mode the sign code of a.Data[6:], the switch on it, and update()
CtlDecide2(a) ==
    /\ Running
    /\ main = "part_002"
    /\ ctl.pc = "fire"
    /\ IF mode = "Auto"
       THEN IF DecodePanics(a)
            THEN /\ ctl' = [CtlIdle EXCEPT !.pc = "panic", !.from = ctl.from]
                 /\ UNCHANGED <<joystickLeft, joystickRight, netWindow, lines>>
            ELSE LET c == SignCode(Decoded(a), 1)
                 IN  /\ ctl' = [CtlIdle EXCEPT !.from = ctl.from]
                     /\ joystickLeft' = SwitchLeft(c, joystickLeft)
                     /\ joystickRight' = SwitchRight(c, joystickRight)
                     /\ netWindow' = SwitchWindow(c)
                     /\ lines' = update(SwitchLeft(c, joystickLeft),
                                        SwitchRight(c, joystickRight))
       ELSE /\ ctl' = [CtlIdle EXCEPT !.from = ctl.from]
            /\ UNCHANGED <<joystickLeft, joystickRight, netWindow, lines>>
    /\ UNCHANGED <<camVars, main, output, mode, netVars, funVars, procVars, extVars>>

\* part_004, the rest of one iteration: out.Fire, win.Fire and the window
\* switch on its largest entry, then in auto mode the switch on the largest
\* entry of a and update()
CtlDecide4(a, w) ==
    /\ Running
    /\ main = "part_004"
    /\ ctl.pc = "fire"
    /\ ctl' = [CtlIdle EXCEPT !.from = ctl.from]
    /\ netWindow' = CASE ArgMax(w, 1, 0, 0) = 0 -> SelectWindow(8)
                      [] ArgMax(w, 1, 0, 0) = 1 -> SelectWindow(16)
                      [] ArgMax(w, 1, 0, 0) = 2 -> SelectWindow(32)
    /\ IF mode = "Auto"
       THEN LET index == ArgMax(a, 1, 0, 0)
                left == IF index = 1 THEN "Down" ELSE "Up"
                right == IF index = 2 THEN "Down" ELSE "Up"
            IN  /\ joystickLeft' = left
                /\ joystickRight' = right
                /\ lines' = update(left, right)
       ELSE UNCHANGED <<joystickLeft, joystickRight, lines>>
    /\ UNCHANGED <<camVars, main, output, mode, netVars, funVars, procVars, extVars>>

\* the event loop, JoyButtonEvent with Button 0 pressed: the mode is toggled;
\* leaving Auto releases both joysticks and calls update()
JoyButton ==
    /\ Running
    /\ IF mode = "Manual"
       THEN /\ mode' = "Auto"
            /\ UNCHANGED <<joystickLeft, joystickRight, lines>>
       ELSE /\ mode' = "Manual"
            /\ joystickLeft' = "None"
            /\ joystickRight' = "None"
            /\ lines' = update("None", "None")
    /\ UNCHANGED <<camVars, main, netWindow, ctl, output, netVars, funVars, procVars, extVars>>

\* the tasks that use Nets: one goroutine per camera (Start) and the control
\* goroutine
Tasks == Cameras \cup {"control"}

\* a control goroutine that also fires the center camera's summary Net
FiresShared(m, t) ==
    IF t = "control"
    THEN {<<"out", 0>>, <<"center", 0>>} \cup (IF m = "part_004" THEN {<<"win", 0>>} ELSE {})
    ELSE {t} \X (0..Nets)

\* the Nets a task calls Fire on: Start fires (*nets)[n] for every n and
\* then net, all fields of its own camera; the control goroutine fires out
\* (and win in part_004)
Fires(m, t) ==
    IF t = "control"
    THEN {<<"out", 0>>} \cup (IF m = "part_004" THEN {<<"win", 0>>} ELSE {})
    ELSE {t} \X (0..Nets)

\* the Nets a task is executing Fire on at its present position: a camera
\* evaluates net.Fire(input) as the operand of its send, the control
\* goroutine fires between its select and the decoding
InFire(t) ==
    IF t = "control"
    THEN (IF ctl.pc = "fire" THEN Fires(main, t) ELSE {})
    ELSE (IF camPc[t] = "send" THEN Fires(main, t) \cap {<<t, 0>>} ELSE {})

\* Outputs is the number of outputs of a camera's summary Net
Outputs == 64

\* Outputs in part_004
Outputs4 == 32

\* Pixels is the number of pixels a V4LCamera samples per sub-net
Pixels == 32

\* the number of pixels a StreamCamera samples per sub-net
StreamPixels == 256

\* the outputs of a sub-net: NewNet(seed+1+int64(n), Window, ..., 8)
SubOutputs == 8

\* the top-level Net is constructed with 3 outputs
TopOutputs == 3

\* the inputs and outputs NewNet is given for each Net of the system
Shape(m, n) ==
    CASE n = <<"out", 0>> ->
            [Inputs |-> IF m = "part_002" THEN 3 * 3 * Outputs ELSE 3 * Outputs4,
             Outputs |-> TopOutputs]
      [] n = <<"win", 0>> -> [Inputs |-> 3 * Outputs4 + 3, Outputs |-> TopOutputs]
      [] n = <<"center", 0>> ->
            [Inputs |-> Nets * SubOutputs,
             Outputs |-> IF m = "part_002" THEN Outputs ELSE Outputs4]
      [] n[1] = "center" -> [Inputs |-> StreamPixels, Outputs |-> SubOutputs]
      [] n[2] = 0 ->
            [Inputs |-> 3 * Nets * SubOutputs,
             Outputs |-> IF m = "part_002" THEN Outputs ELSE Outputs4]
      [] OTHER -> [Inputs |-> 3 * Pixels, Outputs |-> SubOutputs]

\* the matrix a task passes to Fire of one of its Nets, as its Cols, Rows and
\* buffer length: the control goroutine extends output (and metaInput) to
\* its capacity; Start appends one entry per sampled value to a sub-net's
\* input, and to the summary input every entry of every sub-net's response,
\* which has as many entries as the sub-net has outputs
Passed(m, n) ==
    CASE n \in {<<"out", 0>>, <<"win", 0>>} ->
            [Cols |-> Shape(m, n).Inputs, Rows |-> 1, Len |-> Shape(m, n).Inputs]
      [] n = <<"center", 0>> ->
            [Cols |-> Nets * SubOutputs, Rows |-> 1,
             Len |-> Nets * Shape(m, <<"center", 1>>).Outputs]
      [] n[1] = "center" -> [Cols |-> StreamPixels, Rows |-> 1, Len |-> StreamPixels]
      [] n[2] = 0 ->
            [Cols |-> 3 * Nets * SubOutputs, Rows |-> 1,
             Len |-> Nets * Shape(m, <<n[1], 1>>).Outputs]
      [] OTHER -> [Cols |-> 3 * Pixels, Rows |-> 1, Len |-> 3 * Pixels]

\* main has started the cameras and the control goroutine; no Net of the
\* detailed model is in use
InitSys(mains, supplies) ==
    /\ call = NoCall
    /\ proc = NoProc
    /\ ExtIdle
    /\ main \in mains
    /\ images = [c \in Cameras |-> <<>>]
    /\ camPc = [c \in Cameras |-> "read"]
    /\ skip = [c \in Cameras |-> 0]
    /\ count = [c \in Cameras |-> 0]
    /\ held = [c \in Cameras |-> 0]
    /\ supply \in supplies
    /\ drops = [c \in Cameras |-> 0]
    /\ netWindow = [n \in NetNames(main) |-> Window(main)]
    /\ ctl = CtlIdle
    /\ output = [c \in Cameras |-> [i \in 1..Segment(main) |-> Zero]]
    /\ mode = "Manual"
    /\ joystickLeft = "None"
    /\ joystickRight = "None"
    /\ lines = update("None", "None")
    /\ version = "none"
    /\ args = <<>>
    /\ net = <<>>
    /\ pc = <<>>
    /\ local = <<>>
    /\ calls = <<>>
    /\ last = <<>>
    /\ sets = 0

\* part_002 with one camera that delivers MaxFrames frames, the other two
\* deliver none
InitCam ==
    InitSys({"part_002"},
            {[c \in Cameras |-> IF c = c0 THEN MaxFrames ELSE 0] : c0 \in Cameras})

\* either main, every camera delivers CtlFrames frames
InitCtl == InitSys(Mains, {[c \in Cameras |-> CtlFrames]})

NextCam ==
    \/ \E c \in Cameras : \E got \in Reads(c) : ReadFrame(c, got)
    \/ \E c \in Cameras : Offer(c)
    \/ StreamEnd
    \/ \E c \in Cameras : CtlReceive(c)
    \/ \E a \in Responses : CtlDecide2(a)

NextCtl ==
    \/ \E c \in Cameras : \E got \in Reads(c) : ReadFrame(c, got)
    \/ \E c \in Cameras : Offer(c)
    \/ StreamEnd
    \/ \E c \in Cameras : CtlReceive(c)
    \/ \E a \in Responses : CtlDecide2(a)
    \/ \E a \in Peaks, w \in Peaks : CtlDecide4(a, w)
    \/ JoyButton

SpecCam == InitCam /\ [][NextCam]_vars

SpecCtl == InitCtl /\ [][NextCtl]_vars

\* out.Fire and the decoding after it are straight-line code of the control
\* goroutine: once a frame is in hand they run to the end of the iteration
CtlIteration ==
    \/ \E a \in Responses : CtlDecide2(a)
    \/ \E a \in Peaks, w \in Peaks : CtlDecide4(a, w)

\* the cameras and the control goroutine alone, no joystick event arrives
NextLoop ==
    \/ \E c \in Cameras : \E got \in Reads(c) : ReadFrame(c, got)
    \/ \E c \in Cameras : Offer(c)
    \/ StreamEnd
    \/ \E c \in Cameras : CtlReceive(c)
    \/ \E a \in Responses : CtlDecide2(a)
    \/ \E a \in Peaks, w \in Peaks : CtlDecide4(a, w)

SpecCtlFair == InitCtl /\ [][NextLoop]_vars /\ WF_vars(CtlIteration)

\* ------------------------------------------------------------------------
\* The motor commands: the control goroutine and the event loop, statement
\* by statement
\* ------------------------------------------------------------------------
JoystickStates == {"None", "Up", "Down"}

\* what the statements of this section leave alone
motorFrame ==
    <<camVars, main, netWindow, ctl, output, netVars, funVars, procVars, hatVars, dispVars>>

\* the program runs until a goroutine panics
MotorRunning == main # "none" /\ ctlTask.pc # "panic"

\* a task about to enter update(), called from the handler `from`
Update(from) == [pc |-> "u1", state |-> "None", from |-> from]

\* update(), one line write per step: switch joystickRight, in3, in4; switch
\* joystickLeft, in1, in2. The joystick state is read once per switch.
UpdateLines(task) ==
    CASE task.pc = "u1" -> [lines EXCEPT !.in3 = IF joystickRight = "Up" THEN 1 ELSE 0]
      [] task.pc = "u2" -> [lines EXCEPT !.in4 = IF task.state = "Down" THEN 1 ELSE 0]
      [] task.pc = "u3" -> [lines EXCEPT !.in1 = IF joystickLeft = "Up" THEN 1 ELSE 0]
      [] task.pc = "u4" -> [lines EXCEPT !.in2 = IF task.state = "Down" THEN 1 ELSE 0]

UpdateNext(task) ==
    CASE task.pc = "u1" -> [task EXCEPT !.pc = "u2", !.state = joystickRight]
      [] task.pc = "u2" -> [task EXCEPT !.pc = "u3"]
      [] task.pc = "u3" -> [task EXCEPT !.pc = "u4", !.state = joystickLeft]
      [] task.pc = "u4" -> TaskIdle

\* the control goroutine after out.Fire: the action is decoded and the mode
\* is tested (if mode == ModeAuto); in manual mode the iteration ends
CtlTestMode(a) ==
    /\ MotorRunning
    /\ ctlTask.pc = "idle"
    /\ ctlTask' =
          IF mode # "Auto" THEN TaskIdle
          ELSE IF main = "part_004"
               THEN [pc |-> "left", state |-> ArgMax(a, 1, 0, 0), from |-> "control"]
          ELSE IF DecodePanics(a) THEN [pc |-> "panic"]
          ELSE [pc |-> "left", state |-> SignCode(Decoded(a), 1), from |-> "control"]
    /\ UNCHANGED <<mode, joystickLeft, joystickRight, lines, evtTask, quiet, motorFrame>>

\* the joystick states the switch on the decoded action assigns
ActionLeft(m, c) ==
    IF m = "part_004" THEN (IF c = 1 THEN "Down" ELSE "Up")
    ELSE SwitchLeft(c, joystickLeft)

ActionRight(m, c) ==
    IF m = "part_004" THEN (IF c = 2 THEN "Down" ELSE "Up")
    ELSE SwitchRight(c, joystickRight)

\* the control goroutine, the two assignments of the switch, then update()
CtlAssign ==
    /\ MotorRunning
    /\ ctlTask.pc \in {"left", "right"}
    /\ IF ctlTask.pc = "left"
       THEN /\ joystickLeft' = ActionLeft(main, ctlTask.state)
            /\ ctlTask' = [ctlTask EXCEPT !.pc = "right"]
            /\ UNCHANGED joystickRight
       ELSE /\ joystickRight' = ActionRight(main, ctlTask.state)
            /\ ctlTask' = Update("control")
            /\ UNCHANGED joystickLeft
    /\ UNCHANGED <<mode, lines, evtTask, quiet, motorFrame>>

\* the control goroutine inside update()
CtlUpdate ==
    /\ MotorRunning
    /\ ctlTask.pc \in {"u1", "u2", "u3", "u4"}
    /\ lines' = UpdateLines(ctlTask)
    /\ ctlTask' = UpdateNext(ctlTask)
    /\ UNCHANGED <<mode, joystickLeft, joystickRight, evtTask, quiet, motorFrame>>

\* the event loop, JoyAxisEvent: in manual mode the stick's state follows
\* the axis values (any of the three states); axis 2 is the speed; update()
\* follows in every case
EvtAxis(stick, state) ==
    /\ MotorRunning
    /\ evtTask.pc = "idle"
    /\ joystickLeft' = IF stick = "left" /\ mode = "Manual" THEN state ELSE joystickLeft
    /\ joystickRight' = IF stick = "right" /\ mode = "Manual" THEN state ELSE joystickRight
    /\ evtTask' = Update("axis")
    /\ quiet' = FALSE
    /\ UNCHANGED <<mode, lines, ctlTask, motorFrame>>

\* the event loop, JoyButtonEvent with button 0 pressed: mode = ModeAuto, or
\* mode = ModeManual followed by the two assignments of None and update()
EvtButton ==
    /\ MotorRunning
    /\ evtTask.pc = "idle"
    /\ IF mode = "Manual"
       THEN /\ mode' = "Auto"
            /\ quiet' = FALSE
            /\ UNCHANGED evtTask
       ELSE /\ mode' = "Manual"
            /\ evtTask' = [pc |-> "left", state |-> "None", from |-> "button"]
            /\ UNCHANGED quiet
    /\ UNCHANGED <<joystickLeft, joystickRight, lines, ctlTask, motorFrame>>

EvtRelease ==
    /\ MotorRunning
    /\ evtTask.pc \in {"left", "right"}
    /\ IF evtTask.pc = "left"
       THEN /\ joystickLeft' = "None"
            /\ evtTask' = [evtTask EXCEPT !.pc = "right"]
            /\ UNCHANGED joystickRight
       ELSE /\ joystickRight' = "None"
            /\ evtTask' = Update("button")
            /\ UNCHANGED joystickLeft
    /\ UNCHANGED <<mode, lines, ctlTask, quiet, motorFrame>>

\* the event loop inside update(); the handler of the switch to manual mode
\* ends with it
EvtUpdate ==
    /\ MotorRunning
    /\ evtTask.pc \in {"u1", "u2", "u3", "u4"}
    /\ lines' = UpdateLines(evtTask)
    /\ evtTask' = UpdateNext(evtTask)
    /\ quiet' = IF evtTask.pc = "u4" /\ evtTask.from = "button" THEN TRUE ELSE quiet
    /\ UNCHANGED <<mode, joystickLeft, joystickRight, ctlTask, motorFrame>>

\* the cameras deliver frames; their receipt is not detailed here
InitMotor == InitCtl

NextMotor ==
    \/ \E a \in Responses \cup Peaks : CtlTestMode(a)
    \/ CtlAssign
    \/ CtlUpdate
    \/ \E stick \in {"left", "right", "speed"} : \E state \in JoystickStates :
          EvtAxis(stick, state)
    \/ EvtButton
    \/ EvtRelease
    \/ EvtUpdate

SpecMotor == InitMotor /\ [][NextMotor]_vars

\* ------------------------------------------------------------------------
\* The servos: JoyHatEvent
\* ------------------------------------------------------------------------
\* hat events handled in all
MaxHats == 11

\* goroutines waiting on a timer at one time
MaxTimers == 2

\* the values of a hat event: centered, up, right, down, left
HatValues == {0, 1, 2, 4, 8}

\* a hat handler that moves up and left also from the upper limit
HatStepUnguarded(value, pulse) ==
    CASE value \in {1, 8} -> pulse + 100
      [] value \in {4, 2} /\ pulse > 100 -> pulse - 100
      [] OTHER -> pulse

\* the pulse width a hat value leaves: up and left add 100 below 2500, down
\* and right subtract 100 above 100
HatStep(value, pulse) ==
    CASE value \in {1, 8} /\ pulse < 2500 -> pulse + 100
      [] value \in {4, 2} /\ pulse > 100 -> pulse - 100
      [] OTHER -> pulse

\* the event loop, JoyHatEvent: values 1 and 4 move the up/down servo, 8 and
\* 2 the left/right servo; a move sets the servo line and starts a goroutine
\* that clears it when the pulse has elapsed
JoyHat(value) ==
    /\ main # "none"
    /\ servo.hats < MaxHats
    /\ Len(servo.timers) < MaxTimers
    /\ LET upDown == IF value \in {1, 4} THEN HatStep(value, pwmUpDownServo)
                     ELSE pwmUpDownServo
           leftRight == IF value \in {8, 2} THEN HatStep(value, pwmLeftRightServo)
                        ELSE pwmLeftRightServo
       IN  /\ pwmUpDownServo' = upDown
           /\ pwmLeftRightServo' = leftRight
           /\ servo' = [UpDown |-> IF upDown # pwmUpDownServo THEN 1 ELSE servo.UpDown,
                        LeftRight |-> IF leftRight # pwmLeftRightServo THEN 1
                                      ELSE servo.LeftRight,
                        timers |-> IF upDown # pwmUpDownServo
                                   THEN Append(servo.timers, "UpDown")
                                   ELSE IF leftRight # pwmLeftRightServo
                                   THEN Append(servo.timers, "LeftRight")
                                   ELSE servo.timers,
                        hats |-> servo.hats + 1,
                        hat |-> value,
                        moved |-> upDown # pwmUpDownServo \/ leftRight # pwmLeftRightServo]
    /\ UNCHANGED <<netVars, camVars, ctlVars, funVars, procVars, motorVars, dispVars>>

\* a timer goroutine: <-done, then SetValue(0) on its servo line; the timers
\* run in their own goroutines and may finish in any order
ServoClear(i) ==
    /\ i \in 1..Len(servo.timers)
    /\ servo' = [servo EXCEPT ![servo.timers[i]] = 0,
                              !.timers = SubSeq(servo.timers, 1, i - 1)
                                           \o SubSeq(servo.timers, i + 1, Len(servo.timers))]
    /\ UNCHANGED <<netVars, camVars, ctlVars, funVars, procVars, motorVars, dispVars,
                   pwmUpDownServo, pwmLeftRightServo>>

InitHat == InitCtl

NextHat ==
    \/ \E value \in HatValues : JoyHat(value)
    \/ \E i \in 1..MaxTimers : ServoClear(i)

SpecHat == InitHat /\ [][NextHat]_vars

\* ------------------------------------------------------------------------
\* The frame processors: the dispatch goroutine and FrameProcessor.Process
\* ------------------------------------------------------------------------
\* frames each camera delivers while the dispatch goroutine runs
DispFrames == 3

\* NewFrameProcessor: Input is make(chan Input, 1)
InputCap == 1

dispFrame == <<skip, held, supply, camPc, ctlVars, netVars, funVars, procVars, motorVars, hatVars>>

\* a camera's Start, one pass that ends in the select: the frame is put on
\* Images if the buffer has room, else it is dropped
Capture(c) ==
    /\ count[c] < supply[c]
    /\ count' = [count EXCEPT ![c] = @ + 1]
    /\ IF Len(images[c]) < QueueCap
       THEN /\ images' = [images EXCEPT ![c] = Append(@, count[c] + 1)]
            /\ UNCHANGED drops
       ELSE /\ drops' = [drops EXCEPT ![c] = @ + 1]
            /\ UNCHANGED images
    /\ UNCHANGED <<dispFrame, dispVars>>

\* the dispatch goroutine, its select: a frame is received from one of the
\* cameras that has one and converted; the goroutine goes on to the send
DispatchReceive(c) ==
    /\ dispatch.pc = "select"
    /\ images[c] # <<>>
    /\ images' = [images EXCEPT ![c] = Tail(@)]
    /\ dispatch' = [pc |-> "send", to |-> c, frame |-> Head(images[c])]
    /\ UNCHANGED <<count, drops, Input, processing, dispFrame>>

\* the dispatch goroutine, the send xProcessor.Input <- Convert(...): it
\* waits for room in the Input channel of the processor
DispatchSend ==
    /\ dispatch.pc = "send"
    /\ Len(Input[dispatch.to]) < InputCap
    /\ Input' = [Input EXCEPT ![dispatch.to] = Append(@, dispatch.frame)]
    /\ dispatch' = [pc |-> "select"]
    /\ UNCHANGED <<images, count, drops, processing, dispFrame>>

\* Process, for in := range f.Input: the processor takes its next input
ProcessAccept(c) ==
    /\ processing[c] = 0
    /\ Input[c] # <<>>
    /\ processing' = [processing EXCEPT ![c] = Head(Input[c])]
    /\ Input' = [Input EXCEPT ![c] = Tail(@)]
    /\ UNCHANGED <<images, count, drops, dispatch, dispFrame>>

\* Process, the end of the loop body: the Frame is sent on the activations
\* channel, which the main loop drains
ProcessDone(c) ==
    /\ processing[c] # 0
    /\ processing' = [processing EXCEPT ![c] = 0]
    /\ UNCHANGED <<images, count, drops, dispatch, Input, dispFrame>>

InitDisp == InitSys({"part_005"}, {[c \in Cameras |-> DispFrames]})

NextDisp ==
    \/ \E c \in Cameras : Capture(c)
    \/ \E c \in Cameras : DispatchReceive(c)
    \/ DispatchSend
    \/ \E c \in Cameras : ProcessAccept(c)
    \/ \E c \in Cameras : ProcessDone(c)

\* the goroutines of the dispatcher and of the left and right processors are
\* scheduled; the center processor may stop accepting inputs
DispFairness ==
    /\ WF_vars(\E c \in Cameras : DispatchReceive(c))
    /\ WF_vars(DispatchSend)
    /\ \A c \in {"left", "right"} : WF_vars(ProcessAccept(c)) /\ WF_vars(ProcessDone(c))

SpecDisp == InitDisp /\ [][NextDisp]_vars /\ DispFairness

\* ------------------------------------------------------------------------
\* Frame pipelines: the sampling grid, the sub-nets and the summary vector
\* ------------------------------------------------------------------------
\* pixels sampled per sub-net (256 in libcamera.go, Pixels in v4l.go)
GridSize == 2

\* frames a pipeline processes
MaxProcessed == 3

\* the largest width and height of a frame
MaxSide == 9

\* the pipelines: Start of libcamera.go, Start of v4l.go, the V4LCamera
\* Start of part_000 that samples through the sub-nets' random sources, and
\* Process of part_005
Kinds == {"StreamCamera", "V4LCamera", "part_000", "FrameProcessor"}

\* rng.Intn(n) for n > 0, drawn from the stream in state rng: the high bits
\* of the state, reduced to 0..n-1
Intn(rng, n) == (rng \div 4) % n

\* rng.Intn(width / 4) and rng.Intn(height / 4) panic for an argument of 0
GridPanics(width, height) == width \div 4 = 0 \/ height \div 4 = 0

\* a grid drawn over the whole frame
GridWhole(seed, width, height) ==
    [c \in 0..(Nets - 1) |->
        [x \in 1..GridSize |->
            [X |-> Intn(RngAdvance(NewSource(seed), 2 * (c * GridSize + x) - 1), width),
             Y |-> Intn(RngAdvance(NewSource(seed), 2 * (c * GridSize + x)), height)]]]

\* coords: for every sub-net c and sample x, X = rng.Intn(width / 4) and
\* Y = rng.Intn(height / 4), drawn in that order from one source
Grid(seed, width, height) ==
    [c \in 0..(Nets - 1) |->
        [x \in 1..GridSize |->
            [X |-> Intn(RngAdvance(NewSource(seed), 2 * (c * GridSize + x) - 1), width \div 4),
             Y |-> Intn(RngAdvance(NewSource(seed), 2 * (c * GridSize + x)), height \div 4)]]]

\* the seed of the grid: Seed + len(nets) in the cameras, f.Seed in Process
GridSeed(kind, seed) == IF kind = "FrameProcessor" THEN seed ELSE seed + Nets

\* the pixel sub-net n reads for an offset (X, Y) into its cell
Pixel(n, X, Y, width, height) ==
    <<X + (width \div 4) * (n % 4), Y + (height \div 4) * (n \div 4)>>

\* the pixels every sub-net reads on one frame: through the grid, or in
\* part_000 through two draws per sample from the sub-net's own source
Sampled(kind, coords, rngs, width, height) ==
    [n \in 0..(Nets - 1) |->
        [x \in 1..GridSize |->
            IF kind = "part_000"
            THEN Pixel(n, Intn(RngAdvance(rngs[n], 2 * x - 1), width \div 4),
                          Intn(RngAdvance(rngs[n], 2 * x), height \div 4), width, height)
            ELSE Pixel(n, coords[n][x].X, coords[n][x].Y, width, height)]]

\* the draws one frame takes from a sub-net's source: the samples of its
\* Fire, and in part_000 the coordinates before them
FrameDraws(kind) ==
    Samples * GridSize * SubOutputs + (IF kind = "part_000" THEN 2 * GridSize ELSE 0)

\* a pipeline before its first frame: coords is nil, the sub-nets are
\* NewNet(seed+1+n, ...), no response has been collected
NewPipeline(kind, seed, width, height) ==
    [kind |-> kind, seed |-> seed, width |-> width, height |-> height,
     status |-> "run", frames |-> 0, coords |-> <<>>,
     rngs |-> [n \in 0..(Nets - 1) |-> NewSource(seed + 1 + n)],
     sampled |-> <<>>, query |-> <<>>, summary |-> <<>>]

\* one frame through a pipeline: the grid is drawn if coords is nil, every
\* sub-net samples its pixels and fires, the responses are appended (to
\* outputs, made anew for each frame, or in Process to query, key and value,
\* made once before the loop), and the summary input is filled from all of
\* them
ProcessFrame ==
    /\ proc.kind # "none"
    /\ proc.status = "run"
    /\ proc.frames < MaxProcessed
    /\ IF GridPanics(proc.width, proc.height)
       THEN proc' = [proc EXCEPT !.status = "panic"]
       ELSE LET frame == proc.frames + 1
                coords == IF proc.kind = "part_000" THEN <<>>
                          ELSE IF proc.coords = <<>>
                               THEN Grid(GridSeed(proc.kind, proc.seed), proc.width, proc.height)
                               ELSE proc.coords
                responses == [n \in 1..Nets |-> <<frame, n - 1>>]
                query == IF proc.kind = "FrameProcessor" THEN proc.query \o responses
                         ELSE responses
            IN  proc' = [proc EXCEPT
                    !.frames = frame,
                    !.coords = coords,
                    !.sampled = Sampled(proc.kind, coords, proc.rngs, proc.width, proc.height),
                    !.rngs = [n \in 0..(Nets - 1) |->
                                 RngAdvance(proc.rngs[n], FrameDraws(proc.kind))],
                    !.query = query,
                    !.summary = query]
    /\ UNCHANGED <<netVars, camVars, ctlVars, funVars, extVars>>

\* a pipeline of any kind, for a device whose frames have one size
InitProc ==
    /\ proc \in {NewPipeline(kind, seed, width, height) :
                    kind \in Kinds, seed \in Seeds,
                    width \in 3..MaxSide, height \in 3..MaxSide}
    /\ call = NoCall
    /\ ExtIdle
    /\ main = "none"
    /\ images = [c \in Cameras |-> <<>>]
    /\ camPc = [c \in Cameras |-> "read"]
    /\ skip = [c \in Cameras |-> 0]
    /\ count = [c \in Cameras |-> 0]
    /\ held = [c \in Cameras |-> 0]
    /\ supply = [c \in Cameras |-> 0]
    /\ drops = [c \in Cameras |-> 0]
    /\ netWindow = <<>>
    /\ ctl = [pc |-> "select"]
    /\ output = <<>>
    /\ mode = "Manual"
    /\ joystickLeft = "None"
    /\ joystickRight = "None"
    /\ lines = update("None", "None")
    /\ version = "none"
    /\ args = <<>>
    /\ net = <<>>
    /\ pc = <<>>
    /\ local = <<>>
    /\ calls = <<>>
    /\ last = <<>>
    /\ sets = 0

NextProc == ProcessFrame

SpecProc == InitProc /\ [][NextProc]_vars

\* ------------------------------------------------------------------------
\* Library functions applied to operands of every shape
\* ------------------------------------------------------------------------
\* the fillings of a buffer: zeros, a unit-length pair repeated, a ramp, a
\* single one followed by zeros
Patterns == {"zero", "unit", "ramp", "step"}

Fill(p, k) ==
    [i \in 1..k |->
        CASE p = "zero" -> 0
          [] p = "unit" -> IF i % 2 = 1 THEN (6 * Scale) \div 10 ELSE 0 - ((8 * Scale) \div 10)
          [] p = "ramp" -> i * Scale
          [] p = "step" -> IF i = 1 THEN Scale ELSE 0]

\* fully populated matrices, and matrices whose buffer is one entry short of
\* Cols x Rows (NewMatrix gives the buffer that capacity)
Operands ==
    {Matrix(c, r, Fill(p, c * r)) : c \in 1..MaxDim, r \in 1..MaxDim, p \in Patterns}
    \cup {Matrix(c, r, Fill(p, c * r - 1)) : c \in 1..MaxDim, r \in 1..MaxDim, p \in Patterns}

\* Start, the normalization of a sampled feature vector and of the summary
\* vector: every entry is divided by the square root of the sum of squares
Unitize(data) ==
    LET length == FSqrt(SumSeq([x \in 1..Len(data) |-> FMul(data[x], data[x])]))
    IN  [x \in 1..Len(data) |-> FDiv(data[x], length)]

Called(fn, operands) ==
    [fn |-> fn, operands |-> operands, status |-> "called", result |-> Matrix(0, 0, <<>>)]

ApplyMulT ==
    /\ call.fn = "MulT"
    /\ call.status = "called"
    /\ call' = IF MulTPanics(call.operands[1], call.operands[2])
               THEN [call EXCEPT !.status = "panic"]
               ELSE [call EXCEPT !.status = "returned",
                                 !.result = MulT(call.operands[1], call.operands[2])]
    /\ UNCHANGED <<netVars, camVars, ctlVars, procVars, extVars>>

ApplyNormalize ==
    /\ call.fn = "Normalize"
    /\ call.status = "called"
    /\ call' = IF NormalizePanics(call.operands[1])
               THEN [call EXCEPT !.status = "panic"]
               ELSE [call EXCEPT !.status = "returned",
                                 !.result = Normalize(call.operands[1])]
    /\ UNCHANGED <<netVars, camVars, ctlVars, procVars, extVars>>

\* the normalization inside Start, applied to a vector the code has filled
ApplyUnitize ==
    /\ call.fn = "Start"
    /\ call.status = "called"
    /\ call' = [call EXCEPT !.status = "returned",
                            !.result = Matrix(call.operands[1].Cols, 1,
                                              Unitize(call.operands[1].Data))]
    /\ UNCHANGED <<netVars, camVars, ctlVars, procVars, extVars>>

\* the entropies given to the populations of a slice to sort
Entropies == {0, Scale \div 2, Scale}

\* slices of Samples populations as Fire holds them before its sorts: the
\* population sampled i-th is told apart by its response, the entropies are
\* any
Slices ==
    {[i \in 1..Samples |->
         [Entropy |-> e[i], Neurons |-> <<<<Scale>>>>, Outputs |-> <<i * Scale>>]] :
     e \in [1..Samples -> Entropies]}

\* sort.Slice(systems, less) as Fire calls it
ApplySort ==
    /\ call.fn = "sort.Slice"
    /\ call.status = "called"
    /\ \E order \in SortOutcomes(call.operands[1]) :
          call' = [call EXCEPT !.status = "returned",
                              !.result = Ranked(call.operands[1], order)]
    /\ UNCHANGED <<netVars, camVars, ctlVars, procVars, extVars>>

\* responses of the top-level Net: three dot products of any sign
OutVectors == [1..TopOutputs -> {0 - Scale, 0 - (Scale \div 2), 0, Scale}]

\* part_004, the loop over a.Data that picks the action
ApplyArgMax ==
    /\ call.fn = "ArgMax"
    /\ call.status = "called"
    /\ call' = [call EXCEPT !.status = "returned",
                            !.result = ArgMax(call.operands[1], 1, 0, 0)]
    /\ UNCHANGED <<netVars, camVars, ctlVars, procVars, extVars>>

\* rows of scores: far below zero, below zero, zero, above zero
SoftmaxRows == [1..2 -> {0 - 200 * Scale, 0 - Scale, 0, Scale}]

\* softmax(values): the shift it subtracts and the values it leaves
ApplySoftmax ==
    /\ call.fn = "softmax"
    /\ call.status = "called"
    /\ call' = [call EXCEPT !.status = "returned",
                            !.result = [shift |-> softmaxShift(call.operands[1]),
                                        values |-> softmax(call.operands[1])]]
    /\ UNCHANGED <<netVars, camVars, ctlVars, procVars, extVars>>

ApplyTaylorSoftmax ==
    /\ call.fn = "TaylorSoftmax"
    /\ call.status = "called"
    /\ call' = [call EXCEPT !.status = "returned",
                            !.result = TaylorSoftmax(call.operands[1])]
    /\ UNCHANGED <<netVars, camVars, ctlVars, procVars, extVars>>

\* fully populated matrices
FullOperands == {m \in Operands : Len(m.Data) = m.Cols * m.Rows}

\* Q, K, V with equal column counts, V of the shape of K
EntropyOperands ==
    {<<Q, K, V>> \in FullOperands \X FullOperands \X FullOperands :
        Q.Cols = K.Cols /\ V.Cols = K.Cols /\ V.Rows = K.Rows}

ApplySelfEntropy ==
    /\ call.fn = "SelfEntropy"
    /\ call.status = "called"
    /\ call' = IF SelfEntropyPanics(call.operands[1], call.operands[2], call.operands[3])
               THEN [call EXCEPT !.status = "panic"]
               ELSE [call EXCEPT !.status = "returned",
                                 !.result = SelfEntropy(call.operands[1], call.operands[2],
                                                        call.operands[3])]
    /\ UNCHANGED <<netVars, camVars, ctlVars, procVars, extVars>>

\* Q and K with equal column counts, V of any shape
AttentionOperands ==
    {<<Q, K, V>> \in FullOperands \X FullOperands \X FullOperands : Q.Cols = K.Cols}

ApplySelfAttention ==
    /\ call.fn = "SelfAttention"
    /\ call.status = "called"
    /\ call' = IF SelfAttentionPanics(call.operands[1], call.operands[2], call.operands[3])
               THEN [call EXCEPT !.status = "panic"]
               ELSE [call EXCEPT !.status = "returned",
                                 !.result = SelfAttention(call.operands[1], call.operands[2],
                                                          call.operands[3])]
    /\ UNCHANGED <<netVars, camVars, ctlVars, procVars, extVars>>

ApplyT ==
    /\ call.fn = "T"
    /\ call.status = "called"
    /\ call' = [call EXCEPT !.status = "returned", !.result = T(call.operands[1])]
    /\ UNCHANGED <<netVars, camVars, ctlVars, procVars, extVars>>

ApplyEverettActivation ==
    /\ call.fn = "EverettActivation"
    /\ call.status = "called"
    /\ call' = [call EXCEPT !.status = "returned",
                            !.result = EverettActivation(call.operands[1])]
    /\ UNCHANGED <<netVars, camVars, ctlVars, procVars, extVars>>

\* images the dispatch goroutine converts: Width and Height from MinSide to
\* MaxImageSide (Process draws its coordinates below width / 4 and
\* height / 4), every pixel of its own colour or all pixels of one colour
MinSide == 4

MaxImageSide == 6

Images ==
    [Width : MinSide..MaxImageSide, Height : MinSide..MaxImageSide, pattern : {"ramp", "flat"}]

\* img.At(x, y).RGBA() >> 8: the colour of the pixel in column x, row y, and
\* the zero colour outside the bounds of the image
PixelAt(img, x, y) ==
    IF x < 0 \/ x >= img.Width \/ y < 0 \/ y >= img.Height
    THEN <<0, 0, 0>>
    ELSE IF img.pattern = "flat"
         THEN <<200, 200, 200>>
         ELSE LET n == 1 + x + img.Width * y IN <<7 * n, 255 - 7 * n, 3 * n>>

\* the clamp of color.RGBToYCbCr to the range of a uint8
ClampChroma(c) ==
    IF c < 0 THEN 0 ELSE IF c >= 2^24 THEN 255 ELSE c \div 2^16

\* color.RGBToYCbCr(r, g, b)
RGBToYCbCr(rgb) ==
    <<(19595 * rgb[1] + 38470 * rgb[2] + 7471 * rgb[3] + 2^15) \div 2^16,
      ClampChroma(32768 * rgb[3] - 11056 * rgb[1] - 21712 * rgb[2] + 257 * 2^15),
      ClampChroma(32768 * rgb[1] - 27440 * rgb[2] - 5328 * rgb[3] + 257 * 2^15)>>

\* Convert(source, img): i runs over the height, j over the width, and the
\* pixel appended in pass (i, j) is img.At(i, j)
Convert(img) ==
    [Width |-> img.Width, Height |-> img.Height,
     YCbCr |-> [k \in 1..(3 * img.Width * img.Height) |->
                   LET i == ((k - 1) \div 3) \div img.Width
                       j == ((k - 1) \div 3) % img.Width
                   IN  RGBToYCbCr(PixelAt(img, i, j))[((k - 1) % 3) + 1]]]

\* Process: the index of in.YCbCr where it reads the y of column i, row j
ReadIndex(i, j, width) == 3 * j * width + 3 * i

\* Process: the columns and the rows it can read, coords[n][x].X below
\* width / 4 moved by (width / 4) * (n % 4), the rows likewise with n / 4
ReadColumns(width) == {X + (width \div 4) * (n % 4) : X \in 0..((width \div 4) - 1), n \in 0..(Nets - 1)}

ReadRows(height) == {Y + (height \div 4) * (n \div 4) : Y \in 0..((height \div 4) - 1), n \in 0..(Nets - 1)}

ApplyConvert ==
    /\ call.fn = "Convert"
    /\ call.status = "called"
    /\ call' = [call EXCEPT !.status = "returned", !.result = Convert(call.operands[1])]
    /\ UNCHANGED <<netVars, camVars, ctlVars, procVars, extVars>>

\* var votes [8]int: one counter per action
ActionCount == 8

\* the three results of near and the result of rng.Intn(3)
VoteOperands == (0..(ActionCount - 1)) \X (0..(ActionCount - 1)) \X (0..(ActionCount - 1)) \X (0..2)

\* votes after the three votes[near(...)]++
Votes(operands) ==
    [k \in 0..(ActionCount - 1) |-> Cardinality({r \in 1..3 : operands[r] = k})]

\* for k, v := range votes { sum += v; if sum >= choice { index = k; break } }
\* with index 0 when the loop ends without a break
RECURSIVE VoteScan(_, _, _, _)
VoteScan(votes, choice, k, sum) ==
    IF k >= ActionCount
    THEN 0
    ELSE IF sum + votes[k] >= choice
         THEN k
         ELSE VoteScan(votes, choice, k + 1, sum + votes[k])

ApplyVote ==
    /\ call.fn = "vote"
    /\ call.status = "called"
    /\ call' = [call EXCEPT !.status = "returned",
                            !.result = VoteScan(Votes(call.operands), call.operands[4], 0, 0)]
    /\ UNCHANGED <<netVars, camVars, ctlVars, procVars, extVars>>

InitFun ==
    /\ call \in {Called("MulT", <<m, n>>) : m \in Operands, n \in Operands}
            \cup {Called("Normalize", <<m>>) : m \in Operands}
            \cup {Called("Start", <<m>>) :
                      m \in {o \in Operands : o.Rows = 1 /\ Len(o.Data) = o.Cols}}
            \cup {Called("sort.Slice", <<systems>>) : systems \in Slices}
            \cup {Called("ArgMax", <<a>>) : a \in OutVectors}
            \cup {Called("softmax", <<values>>) : values \in SoftmaxRows}
            \cup {Called("TaylorSoftmax", <<m>>) : m \in FullOperands}
            \cup {Called("SelfEntropy", operands) : operands \in EntropyOperands}
            \cup {Called("SelfAttention", operands) : operands \in AttentionOperands}
            \cup {Called("T", <<m>>) : m \in FullOperands}
            \cup {Called("EverettActivation", <<m>>) : m \in FullOperands}
            \cup {Called("Convert", <<img>>) : img \in Images}
            \cup {Called("vote", operands) : operands \in VoteOperands}
    /\ proc = NoProc
    /\ ExtIdle
    /\ main = "none"
    /\ images = [c \in Cameras |-> <<>>]
    /\ camPc = [c \in Cameras |-> "read"]
    /\ skip = [c \in Cameras |-> 0]
    /\ count = [c \in Cameras |-> 0]
    /\ held = [c \in Cameras |-> 0]
    /\ supply = [c \in Cameras |-> 0]
    /\ drops = [c \in Cameras |-> 0]
    /\ netWindow = <<>>
    /\ ctl = [pc |-> "select"]
    /\ output = <<>>
    /\ mode = "Manual"
    /\ joystickLeft = "None"
    /\ joystickRight = "None"
    /\ lines = update("None", "None")
    /\ version = "none"
    /\ args = <<>>
    /\ net = <<>>
    /\ pc = <<>>
    /\ local = <<>>
    /\ calls = <<>>
    /\ last = <<>>
    /\ sets = 0

NextFun ==
    \/ ApplyMulT
    \/ ApplyNormalize
    \/ ApplyUnitize
    \/ ApplySort
    \/ ApplyArgMax
    \/ ApplySoftmax
    \/ ApplyTaylorSoftmax
    \/ ApplySelfEntropy
    \/ ApplySelfAttention
    \/ ApplyT
    \/ ApplyEverettActivation
    \/ ApplyConvert
    \/ ApplyVote

SpecFun == InitFun /\ [][NextFun]_vars

\* ------------------------------------------------------------------------
\* Properties of the Net
\* ------------------------------------------------------------------------
\* the distribution sets of a Net, by role
SetsOf(n) ==
    IF "Distribution" \in DOMAIN n THEN [D |-> n.Distribution]
    ELSE [Q |-> n.Q, K |-> n.K, V |-> n.V]

\* the distribution sets a Net held when its latest Fire began
SetsBefore(id) ==
    IF Len(calls[id]) >= 2 THEN SetsOf(calls[id][Len(calls[id]) - 1].after)
    ELSE SetsOf(Construct(version, args.seed, args.window, args.inputs, args.outputs))

\* C2: a Fire uses one window value, the one the Net held when the Fire
\* began, for every elite selection it makes, also when SetWindow runs while
\* the Fire is in progress.
C2_FireUsesStartWindow ==
    \A id \in DOMAIN net :
        /\ \A c \in 1..Len(calls[id]) :
              \A u \in 1..Len(calls[id][c].used) :
                  calls[id][c].used[u] = calls[id][c].start
        /\ (pc[id] \in {"K", "V"}) =>
              \A u \in 1..Len(local[id].used) : local[id].used[u] = local[id].start

\* C3: NewNet never returns a Net for a window outside 1..Samples.
C3_NewNetRejectsWindow ==
    (args.window < 1 \/ args.window > Samples) => DOMAIN net = {}

\* C5: after the ranking of a Fire no drawn population has a lower entropy
\* than the population at rank 0, and the response Fire returns is the
\* response of a population of minimum entropy.
C5_RankZeroIsMinimum ==
    \A id \in DOMAIN net :
        last[id] # <<>> =>
            /\ \A role \in DOMAIN last[id] :
                  \A i \in 1..Len(last[id][role]) :
                      ~FLt(last[id][role][i].Entropy, last[id][role][1].Entropy)
            /\ \E role \in DOMAIN last[id] :
                  \E i \in 1..Len(last[id][role]) :
                      /\ last[id][role][i].Outputs = calls[id][Len(calls[id])].result
                      /\ \A j \in 1..Len(last[id][role]) :
                            ~FLt(last[id][role][j].Entropy, last[id][role][i].Entropy)

C7_ZeroStdDevStays ==
    [][\A id \in DOMAIN net :
          \A role \in DOMAIN SetsOf(net[id]) :
              \A j \in 1..Len(SetsOf(net[id])[role]) :
                  \A k \in 1..Len(SetsOf(net[id])[role][j]) :
                      SetsOf(net[id])[role][j][k].StdDev = 0
                          => SetsOf(net'[id])[role][j][k].StdDev = 0]_vars

\* a Fire has returned on a Net that held a coordinate of standard deviation
\* 0 when that Fire began
C7_Witness ==
    \E id \in DOMAIN net :
        /\ Len(calls[id]) >= 2
        /\ \E role \in DOMAIN SetsBefore(id) :
              \E j \in 1..Len(SetsBefore(id)[role]) :
                  \E k \in 1..Len(SetsBefore(id)[role][j]) :
                      /\ SetsBefore(id)[role][j][k].StdDev = 0
                      /\ SetsOf(net[id])[role][j][k].StdDev = 0

\* C8: every Fire returns as many entries as the outputs NewNet was given,
\* and draws weight vectors of the input count NewNet was given.
C8_ConstructedSizes ==
    \A id \in DOMAIN net :
        last[id] # <<>> =>
            /\ Len(calls[id][Len(calls[id])].result) = args.outputs
            /\ \A role \in DOMAIN last[id] :
                  \A i \in 1..Len(last[id][role]) :
                      /\ Len(last[id][role][i].Neurons) = args.outputs
                      /\ \A j \in 1..Len(last[id][role][i].Neurons) :
                            Len(last[id][role][i].Neurons[j]) = args.inputs

\* C9: a three-role Fire returns the rank-0 response of each of its three
\* roles, Query, Key and Value.
C9_ReturnsEachRole ==
    \A id \in DOMAIN net :
        (version = "part_001" /\ last[id] # <<>>) =>
            calls[id][Len(calls[id])].result =
                last[id].Q[1].Outputs \o last[id].K[1].Outputs \o last[id].V[1].Outputs

\* C10: in a Fire, a coordinate whose standard deviation was <= 0 when the
\* Fire began has the same weight in every drawn population, +1 if its mean
\* is positive and -1 otherwise, and never NaN.
C10_DegenerateSampledAtMean ==
    \A id \in DOMAIN net :
        last[id] # <<>> =>
            \A role \in DOMAIN last[id] :
                \A j \in 1..Len(SetsBefore(id)[role]) :
                    \A k \in 1..Len(SetsBefore(id)[role][j]) :
                        LET r == SetsBefore(id)[role][j][k]
                        IN  (~IsNaN(r.StdDev) /\ r.StdDev <= 0) =>
                                \A i \in 1..Len(last[id][role]) :
                                    last[id][role][i].Neurons[j][k] =
                                        (IF FGt(r.Mean, 0) THEN Scale ELSE 0 - Scale)

\* a Fire has returned whose Net held, when it began, a coordinate of
\* standard deviation <= 0 with a positive mean and one with a negative mean
C10_Witness ==
    \E id \in DOMAIN net :
        /\ last[id] # <<>>
        /\ \E role \in DOMAIN last[id] :
              /\ \E j \in 1..Len(SetsBefore(id)[role]) :
                    \E k \in 1..Len(SetsBefore(id)[role][j]) :
                        /\ SetsBefore(id)[role][j][k].StdDev <= 0
                        /\ SetsBefore(id)[role][j][k].Mean > 0
              /\ \E j \in 1..Len(SetsBefore(id)[role]) :
                    \E k \in 1..Len(SetsBefore(id)[role][j]) :
                        /\ SetsBefore(id)[role][j][k].StdDev <= 0
                        /\ SetsBefore(id)[role][j][k].Mean < 0

\* the window the latest Fire used for the statistics of a role
UsedWindow(id, role) ==
    LET used == calls[id][Len(calls[id])].used
    IN  IF role = "K" THEN used[2] ELSE IF role = "V" THEN used[3] ELSE used[1]

\* C19: the statistics a Fire recomputes for a role are those of the W
\* populations of lowest entropy drawn in that call, W being the window: the
\* elite is the first W populations of the ranking, and no population left
\* out of it has a lower entropy than one taken into it.
C19_EliteIsLowestEntropy ==
    \A id \in DOMAIN net :
        last[id] # <<>> =>
            \A role \in DOMAIN last[id] :
                LET systems == last[id][role]
                    window == UsedWindow(id, role)
                IN  /\ SetsOf(calls[id][Len(calls[id])].after)[role] =
                          (IF version = "part_001"
                           THEN Blend(SetsBefore(id)[role],
                                      EliteStatistics(systems, window,
                                          Len(systems[1].Neurons[1]), Len(systems[1].Neurons)))
                           ELSE EliteStatistics(systems, window,
                                    Len(systems[1].Neurons[1]), Len(systems[1].Neurons)))
                    /\ \A i \in 1..window :
                          \A j \in (window + 1)..Len(systems) :
                              ~FLt(systems[j].Entropy, systems[i].Entropy)

\* the elite of the latest Fire for a role shares one weight pattern
EliteShared(id, role) ==
    /\ UsedWindow(id, role) >= 1
    /\ \A i \in 1..UsedWindow(id, role) :
          last[id][role][i].Neurons = last[id][role][1].Neurons

\* the statistics of an elite that shares the weight pattern neurons
PatternStatistics(neurons) ==
    [j \in 1..Len(neurons) |-> [k \in 1..Len(neurons[j]) |-> Random(neurons[j][k], 0)]]

\* C21: when all W elite populations of a Fire have the same weight pattern,
\* the statistics recomputed from them have that pattern's weight (+1 or -1)
\* as mean and exactly 0 as standard deviation at every coordinate: they are
\* the new distribution where Fire replaces it, and the elite term of the
\* blend where Fire blends.
C21_SharedPatternStatistics ==
    \A id \in DOMAIN net :
        last[id] # <<>> =>
            \A role \in DOMAIN last[id] :
                EliteShared(id, role) =>
                    LET elite == PatternStatistics(last[id][role][1].Neurons)
                    IN  /\ \A j \in 1..Len(elite) : \A k \in 1..Len(elite[j]) :
                              elite[j][k].Mean \in {Scale, 0 - Scale}
                        /\ SetsOf(calls[id][Len(calls[id])].after)[role] =
                              (IF version = "part_001"
                               THEN Blend(SetsBefore(id)[role], elite)
                               ELSE elite)

\* a Fire has returned whose elite of two or more populations shares one
\* weight pattern that has a weight of -1
C21_Witness ==
    \E id \in DOMAIN net :
        /\ last[id] # <<>>
        /\ \E role \in DOMAIN last[id] :
              /\ UsedWindow(id, role) >= 2
              /\ EliteShared(id, role)
              /\ \E j \in 1..Len(last[id][role][1].Neurons) :
                    \E k \in 1..Len(last[id][role][1].Neurons[j]) :
                        last[id][role][1].Neurons[j][k] = 0 - Scale

\* the statistics of the elite of the latest Fire for a role
EliteOf(id, role) ==
    EliteStatistics(last[id][role], UsedWindow(id, role),
                    Len(last[id][role][1].Neurons[1]), Len(last[id][role][1].Neurons))

\* the latest Fire moved every coordinate of every role by one of the modes
UpdatedBy(id, modes) ==
    \A role \in DOMAIN last[id] :
        LET old == SetsBefore(id)[role]
            new == SetsOf(calls[id][Len(calls[id])].after)[role]
            elite == EliteOf(id, role)
        IN  \/ /\ "blend" \in modes
               /\ \A j \in 1..Len(new) : \A k \in 1..Len(new[j]) :
                     /\ new[j][k].Mean = FAdd(FMul(Scale - Rate, old[j][k].Mean),
                                              FMul(Rate, elite[j][k].Mean))
                     /\ new[j][k].StdDev = FAdd(FMul(Scale - Rate, old[j][k].StdDev),
                                                FMul(Rate, elite[j][k].StdDev))
            \/ /\ "replace" \in modes
               /\ new = elite

C35_SignEntropyDefined ==
    \A id \in DOMAIN net :
        (version = "part_001" /\ last[id] # <<>>) =>
            \A role \in DOMAIN last[id] :
                \A i \in 1..Len(last[id][role]) :
                    /\ ~IsNaN(last[id][role][i].Entropy)
                    /\ \A jj \in 1..Len(last[id][role][i].Neurons[1]) :
                          ~IsNaN(SignEntropy(last[id][role][i].Neurons, jj))

\* ------------------------------------------------------------------------
\* Properties of the system
\* ------------------------------------------------------------------------
\* C1: a camera's Images buffer never holds more than QueueCap (8) frames; a
\* producer that has a frame to offer can always take its step, whatever the
\* consumer does; and when the buffer is full that step leaves the buffer as it
\* is, prints one "drop" line and takes the producer back to its next read.
C1_NonBlockingBoundedQueue ==
    /\ [](\A c \in Cameras :
            /\ Len(images[c]) <= QueueCap
            /\ (Running /\ camPc[c] = "send") => ENABLED Offer(c))
    /\ [][\A c \in Cameras :
            (camPc[c] = "send" /\ camPc'[c] # "send" /\ Len(images[c]) = QueueCap)
                => /\ images'[c] = images[c]
                   /\ drops'[c] = drops[c] + 1
                   /\ camPc'[c] = "read"]_vars

\* a producer has dropped a frame at a full buffer and gone on to read and
\* drop another one, while the frames buffered first are still queued
C1_Witness ==
    \E c \in Cameras :
        /\ drops[c] >= 2
        /\ Len(images[c]) = QueueCap
        /\ camPc[c] = "read"
        /\ Head(images[c]) = 1

\* C4: whenever the control loop has handled a window-change request and is
\* back at its select, every Net of the system holds the requested window:
\* all Nets hold one and the same window. (Stated for the runs in which
\* every camera is still streaming.)
C4_WindowChangeReachesEveryNet ==
    (main # "none" /\ ctl.pc = "select" /\ \A c \in Cameras : camPc[c] # "closed") =>
        \A n1, n2 \in DOMAIN netWindow : netWindow[n1] = netWindow[n2]

\* C11: as long as the program runs, the control loop can take a frame from
\* any camera whose buffer holds one, whatever the other two buffers hold; a
\* frame leaves a buffer only into the hands of the control loop; and with a
\* frame in hand the loop does nothing but fire the top-level Net once,
\* which it can always do and eventually does.
C11_FirstReadyFrameFires ==
    /\ [](\A c \in Cameras :
            (Running /\ ctl.pc = "select" /\ Len(images[c]) > 0)
                => ENABLED CtlReceive(c))
    /\ []((Running /\ ctl.pc = "fire") => ENABLED CtlIteration)
    /\ [][\A c \in Cameras :
            Len(images'[c]) < Len(images[c])
                => /\ ctl.pc = "select"
                   /\ ctl' = [pc |-> "fire", from |-> c, frame |-> Head(images[c])]]_vars
    /\ [][(ctl.pc = "fire" /\ ctl' # ctl)
            => ctl' = [pc |-> "select", from |-> ctl.from, frame |-> 0]]_vars
    /\ ((ctl.pc = "fire") ~> (ctl.pc = "select" \/ ~Running))

\* the top-level Net has fired on a frame of one camera while the other two
\* cameras have not yet read a single frame
C11_Witness ==
    \E c \in Cameras :
        /\ ctl = [pc |-> "select", from |-> c, frame |-> 0]
        /\ count[c] > 0
        /\ \A d \in Cameras \ {c} : count[d] = 0 /\ images[d] = <<>>

\* C12: a frame received from camera c is written into camera c's segment of
\* the top-level input vector and nowhere else: the other two segments are
\* the same before and after, a segment changes only when a frame of its own
\* camera is received, and so every segment holds data of its own camera's
\* latest frame, or zeros if none was received.
C12_OnlyOwnSegmentWritten ==
    /\ [](\A c \in DOMAIN output :
            \A i \in 1..Len(output[c]) : output[c][i] = Zero \/ output[c][i][1] = c)
    /\ [][\A c \in DOMAIN output :
            /\ (ctl.pc = "select" /\ ctl'.pc = "fire" /\ ctl'.from = c /\ ctl'.frame # 0)
                  => /\ output'[c][1] = <<c, ctl'.frame>>
                     /\ \A d \in DOMAIN output \ {c} : output'[d] = output[d]
            /\ output'[c] # output[c]
                  => (ctl.pc = "select" /\ ctl'.pc = "fire" /\ ctl'.from = c)]_vars

\* frames of two cameras have been received one after the other, and the
\* segment written first still holds its frame after the second was written
C12_Witness ==
    /\ main # "none"
    /\ ctl.from = "right"
    /\ output["right"][1] # Zero
    /\ output["left"][1] # Zero
    /\ output["center"][1] = Zero

C15_FireInputsFullyPopulated ==
    main # "none" =>
        \A t \in Tasks : \A n \in InFire(t) :
            /\ Passed(main, n).Len = Passed(main, n).Cols * Passed(main, n).Rows
            /\ Passed(main, n).Len = Shape(main, n).Inputs

\* C17: a frame whose width or height is below 4 is skipped: no camera task
\* panics on it, and it is neither held for sending nor queued.
C17_CorruptFrameSkipped ==
    \A c \in Cameras :
        /\ camPc[c] # "panic"
        /\ held[c] >= 0
        /\ \A i \in 1..Len(images[c]) : images[c][i] > 0

\* C18: every Net of the running system holds a window between 1 and the
\* number of samples a Fire draws (256), from its construction on and after
\* every window change the control loop makes.
C18_WindowInRange ==
    \A n \in DOMAIN netWindow : 1 <= netWindow[n] /\ netWindow[n] <= SampleCount

\* the control loop of part_004 has changed a window: the top-level Net
\* holds 8
C18_Witness ==
    /\ main = "part_004"
    /\ netWindow[<<"out", 0>>] = 8

\* C26: in auto mode every iteration of part_002's control loop that has
\* fired the top-level Net ends with the action code decoded from the
\* returned vector: the loop is back at its select, and for some code
\* 0..7 the motor command is the one of codes 0..4 (forward, turn, turn,
\* stop, reverse) with the windows unchanged, or every window is the one
\* of codes 5, 6, 7 (128, 64, 32) with the motor command unchanged.
C26_SignCodeDecoded ==
    [][(main = "part_002" /\ mode = "Auto" /\ ctl.pc = "fire" /\ ctl'.pc # "fire")
          => /\ ctl'.pc = "select"
             /\ \/ /\ <<joystickLeft', joystickRight'>> \in
                         {<<"Up", "Up">>, <<"Down", "Up">>, <<"Up", "Down">>,
                          <<"None", "None">>, <<"Down", "Down">>}
                   /\ netWindow' = netWindow
                \/ /\ <<joystickLeft', joystickRight'>> = <<joystickLeft, joystickRight>>
                   /\ \E w \in {128, 64, 32} :
                         \A n \in DOMAIN netWindow :
                             (n = <<"out", 0>> \/ n[1] \in Cameras) => netWindow'[n] = w]_vars

\* C34: the control loop handles only frames a camera sent: every step that
\* takes the loop out of its select removes a frame from the buffer of the
\* channel it received from and leads to Fire, also after the center camera
\* has closed its channel.
C34_OnlySentFramesHandled ==
    [][(main # "none" /\ ctl.pc = "select" /\ ctl' # ctl)
          => /\ ctl'.pc = "fire"
             /\ Len(images[ctl'.from]) > 0
             /\ images'[ctl'.from] = Tail(images[ctl'.from])
             /\ ctl'.frame = Head(images[ctl'.from])]_vars

\* C32: the control goroutine assigns a motor command only while the mode
\* is Auto, and once the handler of the switch from Auto to Manual has
\* finished both motor commands are None and the four motor lines are low
\* until the next axis event, under every interleaving of the control
\* goroutine and the event loop.
C32_NoMotorCommandInManual ==
    /\ [][(ctlTask.pc \in {"left", "right"} /\ ctlTask' # ctlTask) => mode = "Auto"]_vars
    /\ [](quiet => /\ mode = "Manual"
                   /\ joystickLeft = "None"
                   /\ joystickRight = "None"
                   /\ lines = update("None", "None"))

\* C33: at no instant are both direction lines of one motor high: not in1
\* and in2, not in3 and in4, between any two line writes of update().
C33_DirectionLinesExclusive ==
    /\ ~(lines.in1 = 1 /\ lines.in2 = 1)
    /\ ~(lines.in3 = 1 /\ lines.in4 = 1)

C23_GridFixedAfterFirstFrame ==
    [][(proc.kind # "none" /\ proc.frames >= 1 /\ proc'.frames > proc.frames)
          => /\ proc'.coords = proc.coords
             /\ proc'.sampled = proc.sampled]_vars

\* C24: every pixel coordinate sampled for sub-net n lies inside the frame
\* and inside cell n of the 4 x 4 partition: x is in
\* [(w/4)(n mod 4), (w/4)(n mod 4 + 1)) and y is in
\* [(h/4)(n div 4), (h/4)(n div 4 + 1)), for every frame of w, h >= 4.
C24_SamplesInsideCell ==
    (proc.kind # "none" /\ proc.frames >= 1) =>
        \A n \in 0..(Nets - 1) :
            \A x \in 1..Len(proc.sampled[n]) :
                LET px == proc.sampled[n][x][1]
                    py == proc.sampled[n][x][2]
                    w4 == proc.width \div 4
                    h4 == proc.height \div 4
                IN  /\ 0 <= px /\ px < proc.width
                    /\ 0 <= py /\ py < proc.height
                    /\ w4 * (n % 4) <= px /\ px < w4 * ((n % 4) + 1)
                    /\ h4 * (n \div 4) <= py /\ py < h4 * ((n \div 4) + 1)

\* a pipeline has sampled two frames of 9 x 8 pixels, a width that is not a
\* multiple of 4, and the sub-net of the last cell has sampled the last
\* pixel of its cell
C24_Witness ==
    /\ proc.kind # "none"
    /\ proc.frames >= 2
    /\ proc.width = 9
    /\ proc.height = 8
    /\ \E x \in 1..GridSize : proc.sampled[Nets - 1][x] = <<7, 7>>

\* C25: on every processed frame the summary vector handed to the summary
\* Net is made of exactly the Nets sub-net responses produced for that
\* frame, in sub-net order; no response of an earlier frame is part of it.
C25_SummaryOfThisFrame ==
    (proc.kind # "none" /\ proc.frames >= 1) =>
        proc.summary = [n \in 1..Nets |-> <<proc.frames, n - 1>>]

\* ------------------------------------------------------------------------
\* Properties of the library functions
\* ------------------------------------------------------------------------
\* C14: MulT(m, n) with m.Cols # n.Cols panics and returns no matrix.
C14_MulTRejectsMismatch ==
    (call.fn = "MulT" /\ call.status # "called"
     /\ call.operands[1].Cols # call.operands[2].Cols)
        => /\ call.status = "panic"
           /\ call.result = Matrix(0, 0, <<>>)

\* MulT has panicked on fully populated operands of different widths
C14_Witness ==
    /\ call.fn = "MulT"
    /\ call.status = "panic"
    /\ call.operands[1].Cols # call.operands[2].Cols
    /\ \A i \in 1..2 :
          Len(call.operands[i].Data) = call.operands[i].Cols * call.operands[i].Rows

\* C16: a row whose entries are all zero comes back from a normalization as
\* it went in, all zero and free of NaN, both from Normalize and from the
\* normalization Start applies to the vectors it builds.
C16_ZeroNormUnchanged ==
    (call.fn \in {"Normalize", "Start"} /\ call.status = "returned") =>
        LET m == call.operands[1]
            o == call.result
        IN  \A i \in 0..(m.Rows - 1) :
                (/\ (i + 1) * m.Cols <= Len(m.Data)
                 /\ \A c \in 1..m.Cols : m.Data[i * m.Cols + c] = 0)
                    => /\ (i + 1) * m.Cols <= Len(o.Data)
                       /\ \A c \in 1..m.Cols : o.Data[i * m.Cols + c] = 0

\* C20: the ranking Fire performs keeps populations of equal entropy in
\* their sampling order: of two populations sampled with the same entropy,
\* the one sampled first holds the lower rank.
C20_TiesKeepSamplingOrder ==
    (call.fn = "sort.Slice" /\ call.status = "returned") =>
        LET systems == call.operands[1]
            ranked == call.result
        IN  \A i \in 1..Len(systems) : \A j \in 1..Len(systems) :
                (i < j /\ systems[i].Entropy = systems[j].Entropy) =>
                    \A a \in 1..Len(ranked) : \A b \in 1..Len(ranked) :
                        (ranked[a] = systems[i] /\ ranked[b] = systems[j]) => a < b


\* C27: the arg-max decoder selects the index of the largest coordinate of
\* the top-level Net's output: no coordinate of the vector is greater than
\* the one at the selected index, also when no coordinate is above zero.
C27_ArgMaxSelectsLargest ==
    (call.fn = "ArgMax" /\ call.status = "returned") =>
        LET a == call.operands[1]
        IN  \A i \in 1..Len(a) : ~FGt(a[i], a[call.result + 1])

\* C28: the shift softmax subtracts from every value of a row before
\* exponentiating is the largest value of that row, also when every
\* value of the row is negative.
C28_SoftmaxShiftIsRowMaximum ==
    (call.fn = "softmax" /\ call.status = "returned") =>
        LET values == call.operands[1]
        IN  /\ \E j \in 1..Len(values) : call.result.shift = values[j]
            /\ \A j \in 1..Len(values) : call.result.shift >= values[j]

\* C29: TaylorSoftmax of a matrix with more than one row returns a matrix
\* every row of which sums to 1 (up to one rounding step per entry).
C29_TaylorRowsSumToOne ==
    (call.fn = "TaylorSoftmax" /\ call.status = "returned" /\ call.operands[1].Rows > 1) =>
        LET o == call.result
        IN  \A i \in 0..(o.Rows - 1) :
                /\ SumSeq(Row(o, i)) >= Scale - o.Cols
                /\ SumSeq(Row(o, i)) <= Scale + o.Cols

\* C30: for Q, K, V with equal column counts SelfEntropy returns one value
\* per row of K, and when Q has no more rows than K the value for row i is
\* the one computed from the scores of K row i against the rows of Q in a
\* buffer that holds nothing else.
C30_EntropyFromOwnScores ==
    (call.fn = "SelfEntropy" /\ call.status # "called") =>
        LET Q == call.operands[1]
            K == call.operands[2]
            VT == T(call.operands[3])
            scores(i) == SelfEntropyValues(Q, K, i, [j \in 1..K.Rows |-> 0])
            mixed(i) == [j \in 1..VT.Rows |-> dot(softmax(scores(i)), Row(VT, j - 1))]
        IN  /\ call.status = "returned"
            /\ Len(call.result) = K.Rows
            /\ Q.Rows <= K.Rows =>
                  \A i \in 0..(K.Rows - 1) :
                      call.result[i + 1] = SelfEntropyOf(softmax(mixed(i)))


\* C31: a matrix operation given operands whose buffers hold Cols x Rows
\* entries returns a matrix whose buffer holds its own Cols x Rows entries:
\* MulT, Normalize, T, EverettActivation, TaylorSoftmax, and SelfAttention
\* for every V, square or not.
C31_ResultBufferMatchesShape ==
    (/\ call.fn \in {"MulT", "Normalize", "T", "EverettActivation", "TaylorSoftmax",
                     "SelfAttention"}
     /\ call.status = "returned"
     /\ \A i \in 1..Len(call.operands) :
           Len(call.operands[i].Data) = call.operands[i].Cols * call.operands[i].Rows)
        => Len(call.result.Data) = call.result.Cols * call.result.Rows

C37_ChosenIndexHasVote ==
    (call.fn = "vote" /\ call.status = "returned")
        => Votes(call.operands)[call.result] >= 1

\* C38: Convert stores the Y, Cb, Cr of the pixel in column x, row y at the
\* indices 3 * (y * w + x), + 1, + 2 of the buffer, for every width w and
\* height h; that is the index Process reads for column x, row y, and every
\* index Process reads is inside the buffer
C38_ConvertMatchesProcess ==
    (call.fn = "Convert" /\ call.status = "returned")
        => LET img == call.operands[1]
               in == call.result
           IN  /\ \A x \in 0..(img.Width - 1) : \A y \in 0..(img.Height - 1) :
                     /\ ReadIndex(x, y, in.Width) = 3 * (y * img.Width + x)
                     /\ ReadIndex(x, y, in.Width) + 3 <= Len(in.YCbCr)
                     /\ \A d \in 1..3 :
                           in.YCbCr[ReadIndex(x, y, in.Width) + d] = RGBToYCbCr(PixelAt(img, x, y))[d]
               /\ \A i \in ReadColumns(in.Width) : \A j \in ReadRows(in.Height) :
                     ReadIndex(i, j, in.Width) + 3 <= Len(in.YCbCr)

====
